---- MODULE Spec2Model ----
(***************************************************************************)
(* Trajectory bookkeeping of the GFlowNet training substrate:              *)
(*   gflownet/utils/batch.py  (Batch)                                      *)
(*   gflownet/envs/base.py    (GFlowNetEnv, Buffer)                        *)
(*                                                                         *)
(* A sampler drives environments one step at a time (forward from the      *)
(* source or backward from a terminating state) and pushes the outcome of  *)
(* each step into the Batch of the environment with add_to_batch.  Batches *)
(* are merged with merge and read through the cached getters.  An          *)
(* exception that leaves a handler is recorded in last.err together with   *)
(* the partly updated object; the run ends there.                          *)
(***************************************************************************)
EXTENDS Integers, Sequences, FiniteSets, TLC

VARIABLES env, batch, buffer, calls, last

vars == <<env, batch, buffer, calls, last>>

(***************************************************************************)
(* Bounds                                                                  *)
(***************************************************************************)
\* rows all batches may hold together before the samplers stop
MaxRows == 4
\* non-stop actions a state of the concrete environment may hold
MaxLen == 1
\* rows all batches may hold together where batches are merged
MaxMergeRows == 3
\* rows all batches may hold together where the caches are read and merged
MaxCacheRows == 2
\* rows a batch may hold where it is read in every format
MaxReadRows == 3
\* the scorer returns values up to MaxScorer^2 in size
MaxScorer == 5
\* states a caller passes to reward_batch at once
MaxBatch == 2
\* slots of the replay reservoir
MaxCapacity == 3
\* candidates a buffer is given over all calls
MaxGiven == 5
\* calls of Buffer.add
MaxCalls == 3
\* actions of the environment whose actions are sampled
MaxDim == 3
\* rows a batch may hold where invocations of add_to_batch interleave
MaxThreadRows == 4

\* environment objects and batch objects of the run
Envs == {1, 2, 3}
Batches == {1, 2, 3}
\* the batch whose sampler drives environment e, and the id the sampler gave
\* it: ids are unique within a batch, not across batches.  Batch 3 has no
\* sampler: it only receives merges.
Owner(e) == IF e = 3 THEN 2 ELSE 1
InitId(e) == IF e = 3 THEN 0 ELSE e - 1

(***************************************************************************)
(* Generic helpers: Python lists and (ordered) dictionaries                *)
(***************************************************************************)
Range(s) == {s[i] : i \in 1..Len(s)}

RECURSIVE Concat(_)
\* the lists of a list of lists, one after the other
Concat(ss) == IF ss = <<>> THEN <<>> ELSE Head(ss) \o Concat(Tail(ss))

\* dictionaries are sequences of [k, v] in insertion order
Keys(d) == {d[i].k : i \in 1..Len(d)}
HasKey(d, key) == key \in Keys(d)
Get(d, key) == (CHOOSE i \in 1..Len(d) : d[i].k = key)
Val(d, key) == d[Get(d, key)].v
\* dict.update({key: v}): replaces in place or appends
Put(d, key, v) ==
    IF HasKey(d, key)
    THEN [d EXCEPT ![Get(d, key)] = [k |-> key, v |-> v]]
    ELSE Append(d, [k |-> key, v |-> v])
Values(d) == [i \in 1..Len(d) |-> d[i].v]

RECURSIVE Update(_, _)
\* dict.update(other)
Update(d, other) ==
    IF other = <<>> THEN d
    ELSE Update(Put(d, Head(other).k, Head(other).v), Tail(other))

Max(S) == CHOOSE x \in S : \A y \in S : y <= x

\* a column that may be None, a Python list or a torch tensor
None == [kind |-> "none", v |-> <<>>]
List(s) == [kind |-> "list", v |-> s]
Tensor(s) == [kind |-> "tensor", v |-> s]
NdArray(s) == [kind |-> "ndarray", v |-> s]

(***************************************************************************)
(* Numbers                                                                 *)
(***************************************************************************)
\* The reward arithmetic of numpy is modelled on exact values.  A number is
\* a record [k, n, d, e]:
\*   k = "rat"   the rational n/d * 10^e, in lowest terms, d coprime to 10
\*               and n no multiple of 10 (one record for one value)
\*   k = "exp"   exp(n/d * 10^e), the exponent not zero
\*   k = "ln10"  (n/d * 10^e) * ln(10), the coefficient not zero
\*   k = "nan"   numpy's nan
Abs(i) == IF i < 0 THEN -i ELSE i

RECURSIVE GCD(_, _)
GCD(a, b) == IF b = 0 THEN a ELSE GCD(b, a % b)

RECURSIVE Rat10(_, _, _)
\* the rational n/d * 10^e (d > 0)
Rat10(n, d, e) ==
    IF n = 0 THEN [k |-> "rat", n |-> 0, d |-> 1, e |-> 0]
    ELSE IF GCD(Abs(n), d) > 1
    THEN Rat10(n \div GCD(Abs(n), d), d \div GCD(Abs(n), d), e)
    ELSE IF d % 2 = 0 THEN Rat10(n * 5, d \div 2, e - 1)
    ELSE IF d % 5 = 0 THEN Rat10(n * 2, d \div 5, e - 1)
    ELSE IF n % 10 = 0 THEN Rat10(n \div 10, d, e + 1)
    ELSE [k |-> "rat", n |-> n, d |-> d, e |-> e]

Rat(n, d) == Rat10(n, d, 0)
NaN == [k |-> "nan", n |-> 0, d |-> 1, e |-> 0]

RECURSIVE Pow10(_)
Pow10(i) == IF i = 0 THEN 1 ELSE 10 * Pow10(i - 1)

Neg(x) == [x EXCEPT !.n = -@]
Mul(x, y) == Rat10(x.n * y.n, x.d * y.d, x.e + y.e)
\* x / y for y # 0
Div(x, y) ==
    Rat10(x.n * y.d * (IF y.n < 0 THEN -1 ELSE 1), x.d * Abs(y.n), x.e - y.e)
Add(x, y) ==
    LET m == IF x.e < y.e THEN x.e ELSE y.e
    IN  Rat10(x.n * Pow10(x.e - m) * y.d + y.n * Pow10(y.e - m) * x.d,
              x.d * y.d, m)

\* the integers whose square may be i (a square below 2^31 has a root of at
\* most 46340)
Roots(i) == 0..(IF i > 46340 THEN 46340 ELSE i)
IsSquare(i) == i >= 0 /\ \E r \in Roots(i) : r * r = i
ISqrt(i) == CHOOSE r \in Roots(i) : r * r = i
\* x has a rational square root
HasSqrt(x) == IsSquare(x.n) /\ IsSquare(x.d) /\ x.e % 2 = 0
Sqrt(x) == Rat10(ISqrt(x.n), ISqrt(x.d), x.e \div 2)

RECURSIVE Ge10(_, _, _)
\* n * 10^i >= d, for n > 0 and d > 0
Ge10(n, d, i) ==
    IF i = 0 THEN n >= d
    ELSE IF i > 0 THEN n >= d \/ Ge10(n * 10, d, i - 1)
    ELSE n >= d /\ Ge10(n, d * 10, i + 1)

\* x ** b as numpy computes it for b in {1/2, 1, 2}: nan for the square root
\* of a negative number
Power(x, b) ==
    IF x.k = "nan" THEN NaN
    ELSE IF b = Rat(1, 1) THEN x
    ELSE IF b = Rat(2, 1) THEN Mul(x, x)
    ELSE IF x.n < 0 THEN NaN
    ELSE Sqrt(x)

\* np.exp(x) and np.log(r) on the values that have a record
Exp(x) == IF x.n = 0 THEN Rat(1, 1) ELSE [x EXCEPT !.k = "exp"]
Log(r) ==
    IF r.k = "nan" THEN NaN
    ELSE IF r.k = "exp" THEN [r EXCEPT !.k = "rat"]
    ELSE IF r.e = 0 THEN Rat(0, 1)
    ELSE [Rat(r.e, 1) EXCEPT !.k = "ln10"]
\* np.log(r) has a record
HasLog(r) == r.k \in {"nan", "exp"} \/ (r.k = "rat" /\ r.n = 1 /\ r.d = 1)

\* c * x and x / c for a rational c # 0 and x a rational or a multiple of ln(10)
Scale(x, c) == IF x.k = "nan" THEN NaN ELSE [Mul(x, c) EXCEPT !.k = x.k]

(***************************************************************************)
(* Environment                                                             *)
(***************************************************************************)
\* the non-stop actions; an action is its index in the action space
action_space == <<"a0">>
eos == Len(action_space)
NonStop == 0..(eos - 1)
Actions == 0..eos

source == <<>>

\* GFlowNetEnv.__init__ / reset: empty state, not done, no action taken.
\* dir records how the sampler uses the environment: "none" until its first
\* use, then forward from the source or backward from the terminating state
\* start.
NewEnv(e) ==
    [id |-> InitId(e), state |-> source, done |-> FALSE, n_actions |-> 0,
     dir |-> "none", start |-> source]

\* forward mask of a concrete sequence environment: a non-stop action is
\* invalid once the trajectory is done or the state is full
MaskForward(state, done) ==
    [i \in 1..eos |-> done \/ Len(state) >= MaxLen]

\* backward mask: the only action that can be undone is the last one taken
\* (the stop action from a done state)
MaskBackward(state, done) ==
    [i \in 1..(eos + 1) |->
        IF done THEN i # eos + 1
        ELSE (i = eos + 1 \/ state = <<>> \/ state[Len(state)] # i - 1)]

\* valid, as env.step(action) returns it: the stop action is always valid,
\* another action is checked against the forward mask
StepValid(E, a) == a = eos \/ ~MaskForward(E.state, E.done)[a + 1]

\* env.step(action): the stop action sets done, a valid action is applied, an
\* invalid one changes nothing
StepEnv(E, a) ==
    IF a = eos
    THEN [E EXCEPT !.done = TRUE, !.n_actions = @ + 1]
    ELSE IF StepValid(E, a)
    THEN [E EXCEPT !.state = Append(@, a), !.n_actions = @ + 1]
    ELSE E

\* valid, as env.step_backwards(action) returns it
StepBackwardsValid(E, a) == ~MaskBackward(E.state, E.done)[a + 1]

\* env.step_backwards(action): undoes the action if it is the one that led to
\* the current state
StepBackwardsEnv(E, a) ==
    IF ~StepBackwardsValid(E, a) THEN E
    ELSE IF a = eos
    THEN [E EXCEPT !.done = FALSE, !.n_actions = @ + 1]
    ELSE [E EXCEPT !.state = SubSeq(@, 1, Len(@) - 1), !.n_actions = @ + 1]

\* env.set_state(state, done)
SetStateEnv(E, state, done) == [E EXCEPT !.state = state, !.done = done]

\* env.set_id(env_id)
SetIdEnv(E, id) == [E EXCEPT !.id = id]

\* GFlowNetEnv.reset(env_id)
reset(E, env_id) ==
    [E EXCEPT !.state = source, !.n_actions = 0, !.done = FALSE, !.id = env_id,
              !.dir = "none", !.start = source]

\* the body of step with the action argument read where the name action
\* stands: a non-stop action clears done, the stop action sets it and counts
StepOfAction(E, action_idx) ==
    IF action_idx < eos
    THEN [E |-> [E EXCEPT !.done = FALSE], err |-> "none",
          ret |-> [state |-> E.state, action |-> action_idx, valid |-> TRUE]]
    ELSE [E |-> [E EXCEPT !.done = TRUE, !.n_actions = @ + 1], err |-> "none",
          ret |-> [state |-> E.state, action |-> action_idx, valid |-> TRUE]]

\* GFlowNetEnv.step(action_idx) of the base class; the result is [E, err, ret].
\* The first statement (line 385) reads the name action, which is neither the
\* parameter (action_idx) nor bound anywhere in the method or the module: the
\* call raises NameError before any attribute is written.
step(E, action_idx) ==
    [E |-> E, err |-> "NameError", ret |-> None]

\* an optional argument that is not given
NotGiven == "None"

\* parents as a sequence environment computes them: a state that is not done
\* has the parent that its last action was applied to
LastActionParents(E, state, done) ==
    LET st == IF state.kind = "none" THEN E.state ELSE state.v
        dn == IF done = NotGiven THEN E.done ELSE done = "True"
    IN  IF dn THEN [parents |-> <<st>>, actions |-> <<eos>>]
        ELSE IF st = source THEN [parents |-> <<>>, actions |-> <<>>]
        ELSE [parents |-> <<SubSeq(st, 1, Len(st) - 1)>>,
              actions |-> <<st[Len(st)]>>]

\* GFlowNetEnv.get_parents(state, done) of the base class: state is None or a
\* list, done is None, True or False; an argument that is None is read from
\* the environment
base_get_parents(E, state, done) ==
    LET st == IF state.kind = "none" THEN E.state ELSE state.v
        dn == IF done = NotGiven THEN E.done ELSE done = "True"
    IN  IF dn THEN [parents |-> <<st>>, actions |-> <<eos>>]
        ELSE [parents |-> <<>>, actions |-> <<>>]

\* GFlowNetEnv.min_reward (line 38)
min_reward == Rat10(1, 1, -8)

\* the reward attributes GFlowNetEnv.__init__ sets (lines 38-44), with the
\* defaults of the constructor; energies_stats is None (<<>>) or the sequence
\* whose entries [2] and [3] are the mean and the standard deviation
DefaultReward ==
    [reward_func |-> "power", reward_beta |-> Rat(1, 1), reward_norm |-> Rat(1, 1),
     denorm_proxy |-> FALSE, energies_stats |-> <<>>]

\* the scorer (env.proxy) applied to one state in proxy format: an energy,
\* lower for longer states
Scorer(state) == Rat(-(1 + Len(state)), 1)

\* np.clip(x, min_reward, None)
Clip(x) ==
    IF x.k = "nan" THEN NaN
    ELSE IF x.k = "exp"
    \* exp(q) >= 1e-8 iff q >= -8 * ln(10) = -18.42068...
    THEN IF (IF x.e >= 0 THEN x.n * Pow10(x.e) * 100000 >= -1842068 * x.d
                         ELSE x.n * 100000 >= -1842068 * x.d * Pow10(-x.e))
         THEN x ELSE min_reward
    ELSE IF x.n > 0 /\ Ge10(x.n, x.d, x.e + 8) THEN x ELSE min_reward

\* lines 161-162: the scorer value de-normalized if denorm_proxy is set
Denorm(E, proxy_vals) ==
    IF E.denorm_proxy
    THEN Add(Mul(proxy_vals, E.energies_stats[4]), E.energies_stats[3])
    ELSE proxy_vals

\* numpy computes every value of proxy2reward(proxy_vals) exactly as a record
ExactReward(E, proxy_vals) ==
    /\ E.denorm_proxy => E.energies_stats # <<>>
    /\ (E.reward_func = "power" /\ E.reward_beta = Rat(1, 2)) =>
          LET x == Div(Neg(Denorm(E, proxy_vals)), E.reward_norm)
          IN  x.n >= 0 => HasSqrt(x)

\* lines 165 and 171: the value before it is clipped, for the two reward
\* forms
Shape(E, proxy_vals) ==
    IF E.reward_func = "power"
    THEN Power(Div(Neg(Denorm(E, proxy_vals)), E.reward_norm), E.reward_beta)
    ELSE Exp(Neg(Mul(E.reward_beta, Denorm(E, proxy_vals))))

\* GFlowNetEnv.proxy2reward(proxy_vals) for one scorer value; the result is
\* [err, ret].  `raise NotImplemented` raises TypeError: NotImplemented is
\* no exception class.
proxy2reward(E, proxy_vals) ==
    IF E.denorm_proxy /\ E.energies_stats = <<>>
    THEN [err |-> "TypeError", ret |-> None]
    ELSE IF E.reward_func \in {"power", "boltzmann"}
    THEN [err |-> "none", ret |-> Clip(Shape(E, proxy_vals))]
    ELSE [err |-> "TypeError", ret |-> None]

\* numpy computes reward2proxy(reward) exactly as a record
ExactProxy(E, r) ==
    /\ (E.reward_func = "power" /\ E.reward_beta = Rat(2, 1) /\ r.k = "rat") =>
          HasSqrt(r)
    /\ E.reward_func = "boltzmann" => HasLog(r)

\* GFlowNetEnv.reward2proxy(reward) for one reward; the result is [err, ret].
\* -exp((log(r) + beta * log(norm)) / beta) is -(r ** (1 / beta)) * norm.
reward2proxy(E, r) ==
    IF E.reward_func = "power"
    THEN [err |-> "none",
          ret |-> Scale(Power(r, Div(Rat(1, 1), E.reward_beta)),
                        Neg(E.reward_norm))]
    ELSE IF E.reward_func = "boltzmann"
    THEN [err |-> "none",
          ret |-> Scale(Log(r), Div(Rat(-1, 1), E.reward_beta))]
    ELSE [err |-> "TypeError", ret |-> None]

\* GFlowNetEnv.reward(state, done); the result is [err, ret].  Line 136
\* returns 0 for a state that is done.
reward(E, state, done) ==
    LET st == IF state.kind = "none" THEN E.state ELSE state.v
        dn == IF done = NotGiven THEN E.done ELSE done = "True"
    IN  IF dn THEN [err |-> "none", ret |-> Rat(0, 1)]
        ELSE proxy2reward(E, Scorer(st))

\* GFlowNetEnv.reward_batch(states, done) for a list of states and as many
\* done flags; the result is [err, ret].  np.array([]) has one dimension and
\* cannot be indexed [list(done), :].
reward_batch(E, states, done) ==
    IF Len(states) = 0 THEN [err |-> "IndexError", ret |-> None]
    ELSE IF (\E i \in 1..Len(done) : done[i])
            /\ proxy2reward(E, Rat(0, 1)).err # "none"
    THEN [err |-> proxy2reward(E, Rat(0, 1)).err, ret |-> None]
    ELSE [err |-> "none",
          ret |-> [i \in 1..Len(done) |->
                     IF done[i] THEN proxy2reward(E, Scorer(states[i])).ret
                     ELSE Rat(0, 1)]]

\* the states of the concrete environment
\* the default of the argument loginf of sample_actions
loginf == 1000

\* Categorical normalises the logits in single precision: the probability
\* of an index Underflow or more below the largest logit is exactly 0
Underflow == 104

\* lines 294-300: the logits of the one row of policy_outputs that are given
\* to Categorical; the mask is None or a tensor of booleans, True where the
\* action is invalid
MaskedLogits(policy_outputs, sampling_method, mask_invalid_actions, temperature_logits) ==
    LET logits == IF sampling_method = "uniform"
                  THEN [i \in 1..Len(policy_outputs) |-> 1]
                  ELSE [i \in 1..Len(policy_outputs) |->
                           policy_outputs[i] \div temperature_logits]
    IN  IF mask_invalid_actions = None THEN logits
        ELSE [i \in 1..Len(logits) |->
                 IF mask_invalid_actions.v[i] THEN -loginf ELSE logits[i]]

\* the indices (0-based) Categorical(logits).sample() may draw
Sampleable(logits) ==
    {i - 1 : i \in {j \in 1..Len(logits) :
                       \A k \in 1..Len(logits) : logits[k] - logits[j] < Underflow}}

\* GFlowNetEnv.sample_actions of an environment whose action_space is space,
\* for one row of policy outputs, where the draw of Categorical is idx; the
\* result is [err, logits, ret], logits being the logits of the distribution
\* sampled (the log-probability returned is their log-softmax at idx).  With
\* another sampling_method no branch binds logits.
sample_actions(space, policy_outputs, sampling_method, mask_invalid_actions, temperature_logits, idx) ==
    IF sampling_method \notin {"uniform", "policy"}
    THEN [err |-> "UnboundLocalError", logits |-> <<>>, ret |-> None]
    ELSE LET logits == MaskedLogits(policy_outputs, sampling_method,
                                    mask_invalid_actions, temperature_logits)
         IN  IF idx >= Len(space)
             THEN [err |-> "IndexError", logits |-> logits, ret |-> None]
             ELSE [err |-> "none", logits |-> logits,
                   ret |-> List(<<space[idx + 1]>>)]

\* lines 296-300: the caller's row of policy_outputs after sample_actions.
\* With 'policy' logits is the caller's tensor itself, divided and masked in
\* place; with 'uniform' logits is a new tensor; with another method line 300
\* finds no logits to write to.
OutputsAfterSample(policy_outputs, sampling_method, mask_invalid_actions, temperature_logits) ==
    IF sampling_method = "policy"
    THEN MaskedLogits(policy_outputs, sampling_method, mask_invalid_actions,
                      temperature_logits)
    ELSE policy_outputs

\* the index of action in space (0-based), -1 if it is not there
IndexOf(space, action) ==
    IF \E i \in 1..Len(space) : space[i] = action
    THEN (CHOOSE i \in 1..Len(space) : space[i] = action /\ \A j \in 1..(i - 1) : space[j] # action) - 1
    ELSE -1

\* GFlowNetEnv.get_logprobs of an environment whose action_space is space,
\* for one row of policy outputs and its action; the result is [err, logits,
\* idx, outputs]: the log-probability returned is the log-softmax of logits at
\* idx, outputs is the caller's row after the call.  logits is the caller's
\* tensor itself (line 320), masked in place (322) before the action is
\* looked up (323).
get_logprobs(space, policy_outputs, actions, mask_invalid_actions) ==
    LET logits == IF mask_invalid_actions = None THEN policy_outputs
                  ELSE [i \in 1..Len(policy_outputs) |->
                           IF mask_invalid_actions.v[i] THEN -loginf
                           ELSE policy_outputs[i]]
        idx == IndexOf(space, actions[1])
    IN  IF idx = -1
        THEN [err |-> "ValueError", logits |-> logits, idx |-> idx, outputs |-> logits]
        ELSE [err |-> "none", logits |-> logits, idx |-> idx, outputs |-> logits]

States == UNION {[1..n -> NonStop] : n \in 0..MaxLen}

(***************************************************************************)
(* Batch: data                                                             *)
(***************************************************************************)
\* common.copy(x): a new object with the value of x.  A stored state is
\* [v, ref]: its value and the environment whose state object it is (0 if it
\* is an object of its own).
copy(x, obj) == [v |-> x, ref |-> 0]

\* Batch.__init__ with an environment given (set_env).  refs[i] is the
\* environment whose state object row i holds (0: none).
NewBatch ==
    [conditional |-> FALSE,
     continuous |-> FALSE,
     size |-> 0,
     envs |-> <<>>,
     trajectories |-> <<>>,
     traj_indices |-> <<>>,
     state_indices |-> <<>>,
     states |-> <<>>,
     refs |-> <<>>,
     actions |-> <<>>,
     done |-> <<>>,
     masks_invalid_actions_forward |-> List(<<>>),
     masks_invalid_actions_backward |-> List(<<>>),
     parents |-> List(<<>>),
     parents_all |-> List(<<>>),
     parents_actions_all |-> List(<<>>),
     parents_all_indices |-> List(<<>>),
     rewards |-> None,
     states_policy |-> None,
     parents_policy |-> None,
     parents_available |-> FALSE,
     parents_all_available |-> FALSE,
     masks_forward_available |-> FALSE,
     masks_backward_available |-> FALSE,
     rewards_available |-> FALSE]

\* Batch.is_valid
is_valid(B) ==
    /\ Len(B.states) = B.size
    /\ Len(B.actions) = B.size
    /\ Len(B.done) = B.size
    /\ Len(B.traj_indices) = B.size
    /\ Len(B.state_indices) = B.size
    /\ Range(B.traj_indices) = Keys(B.envs)
    /\ Keys(B.trajectories) = Keys(B.envs)
    /\ LET batch_indices == Concat(Values(B.trajectories))
       IN  /\ Len(batch_indices) = B.size
           /\ Cardinality(Range(batch_indices)) = Len(batch_indices)

(***************************************************************************)
(* Batch.add_to_batch                                                      *)
(***************************************************************************)
\* the row index appended to the index list in both directions
AppendIndex(trajectories, id, idx, backward) ==
    IF ~HasKey(trajectories, id)
    THEN Append(trajectories, [k |-> id, v |-> <<idx>>])
    ELSE Put(trajectories, id, Append(Val(trajectories, id), idx))

\* lines 204-210: the row index enters the index list of the trajectory
AddIndex(trajectories, id, idx, backward) ==
    IF ~HasKey(trajectories, id)
    THEN Append(trajectories, [k |-> id, v |-> <<idx>>])
    ELSE IF backward
    THEN Put(trajectories, id, <<idx>> \o Val(trajectories, id))
    ELSE Put(trajectories, id, Append(Val(trajectories, id), idx))

\* the state object of environment e itself, stored as it is
EnvState(E, e) == [v |-> E.state, ref |-> e]

\* lines 218 and 225: copy(env.state), the state stored with a row
StoredState(E, e) == copy(E.state, e)

\* the done flag of the environment, stored with every backward row
EnvDone(first, env_done) == env_done

\* line 219 / 223: the done flag stored with a backward row
BackwardDone(first, env_done) == IF first THEN TRUE ELSE env_done

\* line 222: row index whose entry of self.parents is stored as the state of a
\* later backward row
BackwardStateIndex(L) == L[2]

\* One pass of the loop body (lines 195-230) for a valid tuple that is not
\* skipped.  R is [B, err]; the statements run in the order of the code and
\* stop at the first exception.
AddRow(R, E, e, action, mask, backward) ==
    LET B  == R.B
        id == E.id
        B1 == IF HasKey(B.envs, id) THEN B
              ELSE [B EXCEPT !.envs = Append(@, [k |-> id, v |-> e])]
        B2 == [B1 EXCEPT !.trajectories = AddIndex(@, id, B.size, backward)]
        B3 == [B2 EXCEPT !.traj_indices = Append(@, id),
                         !.state_indices = Append(@, E.n_actions)]
        L  == Val(B3.trajectories, id)
        fin(X) == [B |-> [X EXCEPT !.actions = Append(@, action), !.size = @ + 1],
                   err |-> "none"]
    IN
    IF R.err # "none" THEN R
    ELSE IF backward
    THEN IF B3.parents.kind = "none"
         THEN [B |-> B3, err |-> "AttributeError"]
         ELSE LET B4 == [B3 EXCEPT !.parents.v = Append(@, E.state)]
              IN  IF Len(L) = 1
                  THEN LET B5 == [B4 EXCEPT !.states = Append(@, StoredState(E, e).v),
                                            !.refs = Append(@, StoredState(E, e).ref),
                                            !.done = Append(@, BackwardDone(TRUE, E.done))]
                       IN  IF B5.masks_invalid_actions_backward.kind # "list"
                           THEN [B |-> B5, err |-> "AttributeError"]
                           ELSE fin([B5 EXCEPT !.masks_invalid_actions_backward.v =
                                                   Append(@, mask)])
                  ELSE IF BackwardStateIndex(L) + 1 > Len(B4.parents.v)
                       THEN [B |-> B4, err |-> "IndexError"]
                       ELSE LET p == B4.parents.v[BackwardStateIndex(L) + 1]
                            IN  fin([B4 EXCEPT
                                       !.states = Append(@, copy(p, 0).v),
                                       !.refs = Append(@, copy(p, 0).ref),
                                       !.done = Append(@, BackwardDone(FALSE, E.done))])
    ELSE LET B5 == [B3 EXCEPT !.states = Append(@, StoredState(E, e).v),
                              !.refs = Append(@, StoredState(E, e).ref),
                              !.done = Append(@, E.done)]
         IN  IF B5.masks_invalid_actions_forward.kind # "list"
             THEN [B |-> B5, err |-> "AttributeError"]
             ELSE fin([B5 EXCEPT !.masks_invalid_actions_forward.v = Append(@, mask)])

\* lines 196-199: the tuples that are skipped
Skipped(E, valid, train) == (train = FALSE /\ E.done = FALSE) \/ ~valid

\* lines 180-191: the masks computed when none are given
DefaultMask(E, backward, train) ==
    IF train
    THEN IF backward THEN MaskBackward(E.state, E.done)
                     ELSE MaskForward(E.state, E.done)
    ELSE <<>>

RECURSIVE AddAll(_, _, _, _, _)
\* the loop of lines 194-230 over the tuples ts = [e, action, valid] (e an
\* environment object of en)
AddAll(R, en, ts, backward, train) ==
    IF ts = <<>> THEN R
    ELSE LET t == Head(ts)
             E == en[t.e]
             R1 == IF Skipped(E, t.valid, train) THEN R
                   ELSE AddRow(R, E, t.e, t.action,
                               DefaultMask(E, backward, train), backward)
         IN  AddAll(R1, en, Tail(ts), backward, train)

\* Batch.add_to_batch
add_to_batch(B, en, ts, backward, train) ==
    AddAll([B |-> B, err |-> "none"], en, ts, backward, train)

\* number of tuples of ts that add_to_batch is to store
Stored(en, ts, train) ==
    Cardinality({i \in 1..Len(ts) : ~Skipped(en[ts[i].e], ts[i].valid, train)})

\* the invocations of add_to_batch that may run at once, each by the sampler
\* of the environment of its number
Threads == {1, 2}

\* an invocation that is not running: pc is the statement it is at, first the
\* branch of line 217 it took, tmp the size it read at line 230
NoCall ==
    [pc |-> "idle", action |-> 0, mask |-> <<>>, backward |-> FALSE,
     first |-> FALSE, tmp |-> 0]

\* no invocation runs; serial tells whether the callers serialize them
NoCalls(serial) == [serial |-> serial, th |-> [t \in Threads |-> NoCall]]

\* One statement of the loop body (lines 200-230) for a valid tuple of
\* environment e, by the invocation c; the result is [B, c, err].  The
\* increment of size is a read and a write.
Statement(B, E, e, c) ==
    LET id == E.id
        to(X, pc) == [B |-> X, c |-> [c EXCEPT !.pc = pc], err |-> "none"]
        raise(X, err) == [B |-> X, c |-> NoCall, err |-> err]
    IN  CASE c.pc = "envs" ->
               to(IF HasKey(B.envs, id) THEN B
                  ELSE [B EXCEPT !.envs = Append(@, [k |-> id, v |-> e])], "trajectories")
          [] c.pc = "trajectories" ->
               to([B EXCEPT !.trajectories = AddIndex(@, id, B.size, c.backward)],
                  "traj_indices")
          [] c.pc = "traj_indices" ->
               to([B EXCEPT !.traj_indices = Append(@, id)], "state_indices")
          [] c.pc = "state_indices" ->
               to([B EXCEPT !.state_indices = Append(@, E.n_actions)],
                  IF c.backward THEN "parents" ELSE "states")
          [] c.pc = "parents" ->
               IF B.parents.kind = "none" THEN raise(B, "AttributeError")
               ELSE to([B EXCEPT !.parents.v = Append(@, E.state)], "states")
          [] c.pc = "states" ->
               LET L == Val(B.trajectories, id)
                   own == [B EXCEPT !.states = Append(@, StoredState(E, e).v),
                                    !.refs = Append(@, StoredState(E, e).ref)]
               IN  IF ~c.backward THEN to(own, "done")
                   ELSE IF Len(L) = 1
                   THEN [B |-> own, c |-> [c EXCEPT !.pc = "done", !.first = TRUE],
                         err |-> "none"]
                   ELSE IF BackwardStateIndex(L) + 1 > Len(B.parents.v)
                   THEN raise(B, "IndexError")
                   ELSE LET p == B.parents.v[BackwardStateIndex(L) + 1]
                        IN  to([B EXCEPT !.states = Append(@, copy(p, 0).v),
                                         !.refs = Append(@, copy(p, 0).ref)], "done")
          [] c.pc = "done" ->
               to([B EXCEPT !.done = Append(@, IF c.backward
                                                THEN BackwardDone(c.first, E.done)
                                                ELSE E.done)],
                  IF c.backward /\ ~c.first THEN "actions" ELSE "masks")
          [] c.pc = "masks" ->
               IF c.backward
               THEN IF B.masks_invalid_actions_backward.kind # "list"
                    THEN raise(B, "AttributeError")
                    ELSE to([B EXCEPT !.masks_invalid_actions_backward.v =
                                          Append(@, c.mask)], "actions")
               ELSE IF B.masks_invalid_actions_forward.kind # "list"
                    THEN raise(B, "AttributeError")
                    ELSE to([B EXCEPT !.masks_invalid_actions_forward.v =
                                          Append(@, c.mask)], "actions")
          [] c.pc = "actions" ->
               to([B EXCEPT !.actions = Append(@, c.action)], "size_read")
          [] c.pc = "size_read" ->
               [B |-> B, c |-> [c EXCEPT !.pc = "size_write", !.tmp = B.size],
                err |-> "none"]
          [] OTHER ->
               [B |-> [B EXCEPT !.size = c.tmp + 1], c |-> NoCall, err |-> "none"]

(***************************************************************************)
(* Batch: policy format, parents                                           *)
(***************************************************************************)
\* env.state2policy / env.statebatch2policy: a state in policy format
Policy(state) == [policy |-> state]
statebatch2policy(states) == [i \in 1..Len(states) |-> Policy(states[i])]

\* env.state2proxy / env.statebatch2proxy: a state in proxy format
Proxy(state) == [proxy |-> state]
statebatch2proxy(states) == [i \in 1..Len(states) |-> Proxy(states[i])]

\* lines 337-342 and 398-403: the checks and the defaults of the arguments of
\* states2policy and states2proxy; the result is [err, states, traj_indices]
ConvArgs(B, states, traj_indices) ==
    IF /\ traj_indices.kind # "none" /\ B.conditional
       /\ (states.kind # traj_indices.kind \/ Len(states.v) # Len(traj_indices.v))
    THEN [err |-> "AssertionError", states |-> states, traj_indices |-> traj_indices]
    ELSE IF states.kind = "none"
    THEN [err |-> "none", states |-> List(B.states), traj_indices |-> List(B.traj_indices)]
    ELSE [err |-> "none", states |-> states, traj_indices |-> traj_indices]

\* Batch.states2policy(states, traj_indices); the result is [err, ret].  In a
\* conditional batch the conversion of the first trajectory that has a row
\* among traj_indices calls statebatchpolicy, which no environment defines.
states2policy(B, states, traj_indices) ==
    LET A == ConvArgs(B, states, traj_indices)
    IN  IF A.err # "none" THEN [err |-> A.err, ret |-> None]
        ELSE IF ~B.conditional
        THEN [err |-> "none", ret |-> Tensor(statebatch2policy(A.states.v))]
        ELSE IF B.trajectories # <<>> /\ A.traj_indices.kind = "none"
        THEN [err |-> "TypeError", ret |-> None]
        ELSE IF \E t \in Keys(B.trajectories) : t \in Range(A.traj_indices.v)
        THEN [err |-> "AttributeError", ret |-> None]
        ELSE [err |-> "none",
              ret |-> Tensor([i \in 1..Len(A.states.v) |-> Policy(source)])]

\* Batch.get_states_of_trajectory(traj_idx, states, traj_indices), both
\* arguments given; the result is [err, ret]
get_states_of_trajectory(traj_idx, states, traj_indices) ==
    IF states.kind # traj_indices.kind \/ Len(states.v) # Len(traj_indices.v)
    THEN [err |-> "AssertionError", ret |-> None]
    ELSE LET sel == SelectSeq([i \in 1..Len(states.v) |->
                                 [s |-> states.v[i], t |-> traj_indices.v[i]]],
                              LAMBDA x : x.t = traj_idx)
         IN  [err |-> "none",
              ret |-> [kind |-> states.kind, v |-> [i \in 1..Len(sel) |-> sel[i].s]]]

\* Batch.states2proxy(states, traj_indices); the result is [err, ret].  In a
\* conditional batch the first trajectory that has a row among traj_indices
\* is converted and then env_ids and env_id, names that are bound nowhere,
\* are read (line 417); with no such trajectory torch.cat gets an empty list.
states2proxy(B, states, traj_indices) ==
    LET A == ConvArgs(B, states, traj_indices)
    IN  IF A.err # "none" THEN [err |-> A.err, ret |-> None]
        ELSE IF ~B.conditional
        THEN [err |-> "none", ret |-> NdArray(statebatch2proxy(A.states.v))]
        ELSE IF B.trajectories # <<>> /\ A.traj_indices.kind = "none"
        THEN [err |-> "TypeError", ret |-> None]
        ELSE IF \E t \in Keys(B.trajectories) : t \in Range(A.traj_indices.v)
        THEN LET t == B.trajectories[
                        CHOOSE i \in 1..Len(B.trajectories) :
                           /\ B.trajectories[i].k \in Range(A.traj_indices.v)
                           /\ \A j \in 1..(i - 1) :
                                 B.trajectories[j].k \notin Range(A.traj_indices.v)].k
                 G == get_states_of_trajectory(t, A.states, A.traj_indices)
             IN  [err |-> IF G.err # "none" THEN G.err ELSE "NameError", ret |-> None]
        ELSE [err |-> "RuntimeError", ret |-> None]

\* the states in policy format, computed and stored whatever formats are asked
\* for
StatesPolicyFirst(B, policy, proxy, force) ==
    LET C == states2policy(B, None, None)
    IN  IF C.err # "none" THEN [B |-> B, err |-> C.err, ret |-> None]
        ELSE [B |-> [B EXCEPT !.states_policy = C.ret],
              err |-> "none", ret |-> C.ret]

\* Batch.get_states(policy, proxy, force_recompute); the result is
\* [B, err, ret].  states_policy is computed only if it is None or
\* force_recompute is True.
get_states(B, policy, proxy, force) ==
    IF policy /\ proxy THEN [B |-> B, err |-> "ValueError", ret |-> None]
    ELSE IF policy
    THEN IF B.states_policy.kind = "none" \/ force
         THEN LET C == states2policy(B, None, None)
              IN  IF C.err # "none" THEN [B |-> B, err |-> C.err, ret |-> None]
                  ELSE [B |-> [B EXCEPT !.states_policy = C.ret],
                        err |-> "none", ret |-> C.ret]
         ELSE [B |-> B, err |-> "none", ret |-> B.states_policy]
    ELSE IF proxy
    THEN LET C == states2proxy(B, None, None)
         IN  [B |-> B, err |-> C.err, ret |-> C.ret]
    ELSE [B |-> B, err |-> "none", ret |-> List(B.states)]

\* Batch.get_states(policy=True, force_recompute)
get_states_policy(B, force) == get_states(B, TRUE, FALSE, force)

\* lines 502 and 494: the parents of the rows of index list L, in the order of L
ParentsOf(states, L) ==
    <<source>> \o [k \in 1..(Len(L) - 1) |-> states[L[k] + 1]]

\* lines 495-505: parents_policy after the two indexed assignments for index
\* list L (every index of L is a row of parents_policy)
ParentsPolicyOf(pp, sp, L) ==
    [i \in 1..Len(pp) |->
        IF \E k \in 1..Len(L) : L[k] + 1 = i
        THEN LET k == CHOOSE k \in 1..Len(L) : L[k] + 1 = i
             IN  IF k = 1 THEN Policy(source) ELSE sp[L[k - 1] + 1]
        ELSE pp[i]]

RECURSIVE ParentsLoop(_, _, _)
\* the loop of lines 492-506 over the trajectories trajs that remain.
\* R is [B, indices, err]; an index beyond the rows of states_policy raises.
ParentsLoop(R, trajs, sp) ==
    IF trajs = <<>> \/ R.err # "none" THEN R
    ELSE LET L  == Head(trajs)
             B  == R.B
             n  == Len(sp)
             B1 == [B EXCEPT !.parents.v = Append(@, source)]
         IN  IF L[1] + 1 > n
             THEN [R EXCEPT !.B = B1, !.err = "IndexError"]
             ELSE LET B2 == [B1 EXCEPT
                               !.parents.v = B.parents.v \o ParentsOf(B.states, L),
                               !.parents_policy.v =
                                   ParentsPolicyOf(@, sp, <<L[1]>>)]
                  IN  IF \E k \in 1..Len(L) : L[k] + 1 > n
                      THEN [R EXCEPT !.B = B2, !.err = "IndexError"]
                      ELSE ParentsLoop(
                             [B |-> [B2 EXCEPT !.parents_policy.v =
                                                   ParentsPolicyOf(B.parents_policy.v, sp, L)],
                              indices |-> R.indices \o L,
                              err |-> "none"],
                             Tail(trajs), sp)

\* line 509: the parents sorted in the order of the rows
SortParents(parents, indices, size) ==
    [i \in 1..size |->
        parents[CHOOSE k \in 1..Len(indices) : indices[k] = i - 1]]

\* lines 488-509 of _compute_parents: B1 is the batch after the states in
\* policy format were read (line 487); the result is [B, err]
ParentsFrom(B, B1) ==
    LET sp == B1.states_policy.v
        B2 == [B1 EXCEPT !.parents_policy =
                             Tensor([i \in 1..Len(sp) |-> Policy(source)]),
                         !.parents = List(<<>>)]
        R  == ParentsLoop([B |-> B2, indices |-> <<>>, err |-> "none"],
                          Values(B.trajectories), sp)
    IN  IF R.err # "none" THEN [B |-> R.B, err |-> R.err]
        ELSE IF \E i \in 0..(B.size - 1) : i \notin Range(R.indices)
        THEN [B |-> R.B, err |-> "ValueError"]
        ELSE [B |-> [R.B EXCEPT !.parents.v = SortParents(@, R.indices, B.size)],
              err |-> "none"]

\* Batch._compute_parents; the result is [B, err].  The states in policy
\* format are read once, before the loop.
compute_parents(B) ==
    LET G == get_states_policy(B, FALSE)
    IN  IF G.err # "none" THEN [B |-> B, err |-> G.err]
        ELSE CHOOSE R \in {ParentsFrom(B, g.B) : g \in {G}} : TRUE

\* Batch.get_parents(policy, force_recompute); the result is [B, err, ret]
get_parents(B, policy, force) ==
    LET R == IF B.parents_available = FALSE \/ force
             THEN compute_parents(B)
             ELSE [B |-> B, err |-> "none"]
    IN  [B |-> R.B, err |-> R.err,
         ret |-> IF R.err # "none" THEN None
                 ELSE IF policy THEN R.B.parents_policy ELSE R.B.parents]

(***************************************************************************)
(* Batch: masks, parents_all, rewards                                      *)
(***************************************************************************)
\* env.get_parents(state, done, action) of the concrete environment: a done
\* state is its own parent by the stop action (base.py 273-274); another state
\* has the parent that the last action of the state was applied to
env_get_parents(state, done) ==
    IF done THEN [parents |-> <<state>>, actions |-> <<eos>>]
    ELSE IF state = source THEN [parents |-> <<>>, actions |-> <<>>]
    ELSE [parents |-> <<SubSeq(state, 1, Len(state) - 1)>>,
          actions |-> <<state[Len(state)]>>]

\* the proxy and the reward form applied to a terminating state in proxy format
\* (env.proxy2reward(env.proxy(.))): a strictly positive value
ProxyReward(state) == 1 + Len(state)

\* Batch._compute_masks_forward
compute_masks_forward(B) ==
    [B EXCEPT !.masks_invalid_actions_forward =
                  Tensor([i \in 1..Len(B.traj_indices) |->
                            MaskForward(B.states[i], B.done[i])]),
              !.masks_forward_available = TRUE]

\* Batch.get_masks_forward(of_parents=False, force_recompute)
get_masks_forward(B, force) ==
    LET B1 == IF B.masks_forward_available = FALSE \/ force
              THEN compute_masks_forward(B) ELSE B
    IN  [B |-> B1, err |-> "none", ret |-> B1.masks_invalid_actions_forward]

\* set_env, line 122: the forward mask of the source state
SourceMaskForward == MaskForward(source, FALSE)

\* each row taken for its own predecessor
OwnIndices(B) ==
    [i \in 1..Len(B.traj_indices) |-> i - 1]

\* lines 660-671: for each row the row index (0-based) that precedes it in the
\* index list of its trajectory, -1 for the first of the list
ParentsIndices(B) ==
    [i \in 1..Len(B.traj_indices) |->
        LET L == Val(B.trajectories, B.traj_indices[i])
            pos == CHOOSE k \in 1..Len(L) : L[k] = i - 1
        IN  IF pos = 1 THEN -1 ELSE L[pos - 1]]

\* Batch.get_masks_forward(of_parents=True, force_recompute); the result is
\* [B, err, ret].  A row index that its index list does not hold makes
\* list.index raise; the boolean index of lines 675-681 has one entry per
\* row and must have the length of the masks stored.
get_masks_forward_of_parents(B, force) ==
    LET B1 == IF B.masks_forward_available = FALSE \/ force
              THEN compute_masks_forward(B) ELSE B
        M == B1.masks_invalid_actions_forward
    IN  IF \E i \in 1..Len(B1.traj_indices) : ~HasKey(B1.trajectories, B1.traj_indices[i])
        THEN [B |-> B1, err |-> "KeyError", ret |-> None]
        ELSE IF \E i \in 1..Len(B1.traj_indices) :
                    i - 1 \notin Range(Val(B1.trajectories, B1.traj_indices[i]))
        THEN [B |-> B1, err |-> "ValueError", ret |-> None]
        ELSE IF M.kind # "tensor"
        THEN [B |-> B1, err |-> "TypeError", ret |-> None]
        ELSE LET parents_indices == ParentsIndices(B1)
             IN  IF \/ Len(parents_indices) # Len(M.v)
                    \/ \E i \in 1..Len(parents_indices) : parents_indices[i] >= Len(M.v)
                 THEN [B |-> B1, err |-> "IndexError", ret |-> None]
                 ELSE [B |-> B1, err |-> "none",
                       ret |-> Tensor([i \in 1..Len(parents_indices) |->
                                         IF parents_indices[i] = -1 THEN SourceMaskForward
                                         ELSE M.v[parents_indices[i] + 1]])]

\* Batch.get_masks_backward(force_recompute)
get_masks_backward(B, force) ==
    IF B.masks_backward_available = TRUE /\ force = FALSE
    THEN [B |-> B, err |-> "none",
          ret |-> Tensor(B.masks_invalid_actions_backward.v)]
    ELSE LET B1 == [B EXCEPT !.masks_invalid_actions_backward =
                                 Tensor([i \in 1..Len(B.traj_indices) |->
                                           MaskBackward(B.states[i], B.done[i])]),
                             !.masks_backward_available = TRUE]
         IN  [B |-> B1, err |-> "none", ret |-> B1.masks_invalid_actions_backward]

RECURSIVE ParentsAllLoop(_, _)
\* the loop of lines 590-614 from row idx (0-based) on; R is [B, err]
ParentsAllLoop(R, idx) ==
    IF idx >= Len(R.B.traj_indices) \/ R.err # "none" THEN R
    ELSE LET B == R.B
             P == env_get_parents(B.states[idx + 1], B.done[idx + 1])
         IN  IF B.actions[idx + 1] \notin Range(P.actions)
             THEN [R EXCEPT !.err = "AssertionError"]
             ELSE ParentsAllLoop(
                    [B |-> [B EXCEPT
                              !.parents_all.v = @ \o P.parents,
                              !.parents_actions_all.v = @ \o P.actions,
                              !.parents_all_indices.v =
                                  @ \o [k \in 1..Len(P.parents) |-> idx]],
                     err |-> "none"],
                    idx + 1)

\* Batch._compute_parents_all; the result is [B, err]
compute_parents_all(B) ==
    LET R == ParentsAllLoop(
               [B |-> [B EXCEPT !.parents_all = List(<<>>),
                                !.parents_actions_all = List(<<>>),
                                !.parents_all_indices = List(<<>>)],
                err |-> "none"], 0)
        T == [R.B EXCEPT !.parents_actions_all.kind = "tensor",
                         !.parents_all_indices.kind = "tensor"]
    IN  IF R.err # "none" THEN R
        \* line 625: torch.cat of the policy-format parents, one tensor a row,
        \* raises if there is no row
        ELSE IF Len(B.traj_indices) = 0 THEN [B |-> T, err |-> "RuntimeError"]
        ELSE [B |-> [T EXCEPT !.parents_all_available = TRUE], err |-> "none"]

\* the parents of all rows computed anew on every read, whatever the action
\* space of the batch
ParentsAllRecomputed(B, force) ==
    LET R == compute_parents_all(B)
    IN  [B |-> R.B, err |-> R.err,
         ret |-> IF R.err # "none" THEN None ELSE R.B.parents_all]

\* Batch.get_parents_all(policy=False, force_recompute): raises for a
\* continuous action space before anything is computed
get_parents_all(B, force) ==
    LET R == IF B.parents_all_available = FALSE \/ force
             THEN compute_parents_all(B)
             ELSE [B |-> B, err |-> "none"]
    IN  IF B.continuous THEN [B |-> B, err |-> "Exception", ret |-> None]
        ELSE [B |-> R.B, err |-> R.err,
              ret |-> IF R.err # "none" THEN None ELSE R.B.parents_all]

\* lines 812-817: the row indices (0-based) in the order asked for; argsort
\* keeps the row order among the rows of one trajectory
SortIndices(B, sort_by) ==
    IF sort_by = "insertion" THEN [i \in 1..B.size |-> i - 1]
    ELSE LET n == Len(B.traj_indices)
             before(i, j) == \/ B.traj_indices[i] < B.traj_indices[j]
                             \/ (B.traj_indices[i] = B.traj_indices[j] /\ i < j)
             rank(i) == Cardinality({j \in 1..n : before(j, i)})
         IN  [k \in 1..n |-> (CHOOSE i \in 1..n : rank(i) = k - 1) - 1]

\* the entries of column col at the indices that are rows with done = True
TermOf(B, col, indices) ==
    LET sel == SelectSeq(indices, LAMBDA idx : B.done[idx + 1])
    IN  [k \in 1..Len(sel) |-> col[sel[k] + 1]]

\* Batch.get_terminating_states(sort_by, policy, proxy) of a batch whose
\* states are a list; the result is [err, ret]
get_terminating_states(B, sort_by, policy, proxy) ==
    IF sort_by \notin {"insertion", "trajectory"}
    THEN [err |-> "ValueError", ret |-> None]
    ELSE IF policy /\ proxy THEN [err |-> "ValueError", ret |-> None]
    ELSE LET indices == SortIndices(B, sort_by)
             states_term == List(TermOf(B, B.states, indices))
             cond == B.conditional /\ (policy \/ proxy)
             ti == TermOf(B, B.traj_indices, indices)
             traj_indices == IF cond THEN NdArray(ti) ELSE None
         IN  IF cond /\ Len(ti) # Cardinality(Range(ti))
             THEN [err |-> "AssertionError", ret |-> None]
             ELSE IF policy THEN states2policy(B, states_term, traj_indices)
             ELSE IF proxy THEN states2proxy(B, states_term, traj_indices)
             ELSE [err |-> "none", ret |-> states_term]

\* Batch.get_actions_trajectories(): one list of actions per entry of
\* self.trajectories, in the order of the dict
get_actions_trajectories(B) ==
    [k \in 1..Len(B.trajectories) |->
        [j \in 1..Len(B.trajectories[k].v) |-> B.actions[B.trajectories[k].v[j] + 1]]]

\* lines 775-780: zeros, and at the k-th row with done = True the k-th of the
\* values vals
MaskedAssign(done, size, vals) ==
    [i \in 1..size |->
        IF done[i] THEN vals[Cardinality({j \in 1..i : done[j]})] ELSE 0]

\* Batch._compute_rewards; the result is [B, err]
compute_rewards(B) ==
    LET T == get_terminating_states(B, "insertion", FALSE, TRUE)
        vals == [k \in 1..Len(T.ret.v) |-> ProxyReward(T.ret.v[k].proxy)]
    IN  IF T.err # "none" THEN [B |-> B, err |-> T.err]
        ELSE [B |-> [B EXCEPT !.rewards = Tensor(MaskedAssign(B.done, B.size, vals)),
                              !.rewards_available = TRUE],
              err |-> "none"]

\* the rewards computed at every read
RewardsRecomputed(B, force) ==
    LET R == compute_rewards(B)
    IN  [B |-> R.B, err |-> R.err,
         ret |-> IF R.err # "none" THEN None ELSE R.B.rewards]

\* Batch.get_rewards(force_recompute); the result is [B, err, ret]
get_rewards(B, force) ==
    LET R == IF B.rewards_available = FALSE \/ force
             THEN compute_rewards(B) ELSE [B |-> B, err |-> "none"]
    IN  [B |-> R.B, err |-> R.err,
         ret |-> IF R.err # "none" THEN None ELSE R.B.rewards]

\* Batch.get_terminating_rewards(sort_by, force_recompute); the result is
\* [B, err, ret].  The stored rewards are indexed with the index of every row
\* of the batch, in the order asked for.
get_terminating_rewards(B, sort_by, force) ==
    IF sort_by \notin {"insertion", "trajectory"}
    THEN [B |-> B, err |-> "ValueError", ret |-> None]
    ELSE LET indices == SortIndices(B, sort_by)
             R == IF B.rewards_available = FALSE \/ force
                  THEN compute_rewards(B) ELSE [B |-> B, err |-> "none"]
         IN  IF R.err # "none" THEN [B |-> R.B, err |-> R.err, ret |-> None]
             ELSE IF \E k \in 1..Len(indices) : indices[k] >= Len(R.B.rewards.v)
             THEN [B |-> R.B, err |-> "IndexError", ret |-> None]
             ELSE [B |-> R.B, err |-> "none",
                   ret |-> Tensor(TermOf(B, R.B.rewards.v, indices))]

(***************************************************************************)
(* Batch.merge                                                             *)
(***************************************************************************)
\* Batch._shift_traj_indices(by); en are the environment objects, whose ids
\* are shifted with the keys.  The result is [B, en, err].
shift_traj_indices(B, en, by) ==
    IF ~is_valid(B) THEN [B |-> B, en |-> en, err |-> "Exception"]
    ELSE LET B1 == [B EXCEPT
                      !.traj_indices = [i \in 1..Len(@) |-> @[i] + by],
                      !.trajectories = [i \in 1..Len(@) |-> [k |-> @[i].k + by, v |-> @[i].v]],
                      !.envs = [i \in 1..Len(@) |-> [k |-> @[i].k + by, v |-> @[i].v]]]
             en1 == [e \in DOMAIN en |->
                       IF \E i \in 1..Len(B.envs) : B.envs[i].v = e
                       THEN SetIdEnv(en[e],
                                     B.envs[CHOOSE i \in 1..Len(B.envs) : B.envs[i].v = e].k + by)
                       ELSE en[e]]
         IN  [B |-> B1, en |-> en1,
              err |-> IF is_valid(B1) THEN "none" ELSE "Exception"]

\* lines 934-937: the shift of the trajectory ids of the batch to merge
TrajIdxShift(A) == IF A.size = 0 THEN 0 ELSE Max(Keys(A.trajectories)) + 1

\* common.extend(orig, new): orig followed by new
extend(orig, new) == [kind |-> orig.kind, v |-> orig.v \o new.v]

\* lines 940-947: the main data of batch B, already shifted, is spliced into A
MergeMain(A, B) ==
    [A EXCEPT !.size = @ + B.size,
              !.envs = Update(@, B.envs),
              !.trajectories = Update(@, B.trajectories),
              !.traj_indices = @ \o B.traj_indices,
              !.state_indices = @ \o B.state_indices,
              !.states = @ \o B.states,
              !.refs = @ \o B.refs,
              !.actions = @ \o B.actions,
              !.done = @ \o B.done]

\* lines 949-982: the optional data.  Where a cache is not available in both
\* batches the code sets an attribute to None: for the masks that attribute is
\* not the cache (masks_forward, masks_backward), and no availability flag is
\* written.
MergeOptional(A, B) ==
    [A EXCEPT
       !.states_policy =
           IF A.states_policy.kind # "none" /\ B.states_policy.kind # "none"
           THEN extend(A.states_policy, B.states_policy) ELSE None,
       !.parents_policy =
           IF A.parents_policy.kind # "none" /\ B.parents_policy.kind # "none"
           THEN extend(A.parents_policy, B.parents_policy) ELSE None,
       !.masks_invalid_actions_forward =
           IF A.masks_forward_available /\ B.masks_forward_available
           THEN extend(@, B.masks_invalid_actions_forward) ELSE @,
       !.masks_invalid_actions_backward =
           IF A.masks_backward_available /\ B.masks_backward_available
           THEN extend(@, B.masks_invalid_actions_backward) ELSE @,
       !.parents =
           IF A.parents_available /\ B.parents_available
           THEN extend(@, B.parents) ELSE None,
       !.parents_all =
           IF A.parents_all_available /\ B.parents_all_available
           THEN extend(@, B.parents_all) ELSE None,
       !.rewards =
           IF A.rewards_available /\ B.rewards_available
           THEN extend(@, B.rewards) ELSE None]

RECURSIVE MergeLoop(_, _, _)
\* the loop of lines 932-982 over the batches bs that remain; S is
\* [bt, en, err] with bt all batch objects and a the receiving one
MergeLoop(S, a, bs) ==
    IF bs = <<>> \/ S.err # "none" THEN S
    ELSE LET b  == Head(bs)
             Sh == shift_traj_indices(S.bt[b], S.en, TrajIdxShift(S.bt[a]))
             bt1 == [S.bt EXCEPT ![b] = Sh.B]
         IN  IF Sh.err # "none"
             THEN [bt |-> bt1, en |-> Sh.en, err |-> Sh.err]
             ELSE MergeLoop(
                    [bt |-> [bt1 EXCEPT ![a] = MergeOptional(MergeMain(@, Sh.B), Sh.B)],
                     en |-> Sh.en, err |-> "none"],
                    a, Tail(bs))

\* Batch.merge(batches) on batch object a; the result is [bt, en, err]
merge(bt, en, a, bs) ==
    LET S == MergeLoop([bt |-> bt, en |-> en, err |-> "none"], a, bs)
    IN  IF S.err # "none" THEN S
        ELSE [S EXCEPT !.err = IF is_valid(S.bt[a]) THEN "none" ELSE "AssertionError"]

(***************************************************************************)
(* Buffer: the log of the samples and the replay reservoir                 *)
(***************************************************************************)
\* str(state), and str(path) with its brackets and commas rewritten
state2readable(state) == [kind |-> "str", v |-> state]
path2readable(path) == [kind |-> "readable", v |-> path]

\* a cell holding a number of the iteration
Iter(it) == [kind |-> "int", v |-> it]

\* a row of the reservoir as the constructor leaves it: np.empty cells, the
\* energy made numeric and the reward set to -1
EmptyRow == [state |-> None, path |-> None, reward |-> -1, energy |-> NaN, iter |-> None]

NewBuffer(replay_capacity) ==
    [replay_capacity |-> replay_capacity,
     main |-> <<>>,
     replay |-> [i \in 1..replay_capacity |-> EmptyRow]]

\* the row made of candidate i
Row(states, paths, rewards, energies, it, i) ==
    [state |-> state2readable(states[i]), path |-> path2readable(paths[i]),
     reward |-> rewards[i], energy |-> energies[i], iter |-> Iter(it)]

\* np.argmax and np.argmin: the first index of the largest, of the smallest
ArgMax(xs) == CHOOSE i \in 1..Len(xs) :
                 /\ \A j \in 1..Len(xs) : xs[j] <= xs[i]
                 /\ \A j \in 1..(i - 1) : xs[j] < xs[i]
ArgMin(xs) == CHOOSE i \in 1..Len(xs) :
                 /\ \A j \in 1..Len(xs) : xs[j] >= xs[i]
                 /\ \A j \in 1..(i - 1) : xs[j] > xs[i]

\* the column of the rewards of a frame
RewardsOf(frame) == [i \in 1..Len(frame) |-> frame[i].reward]

RECURSIVE AddLatestLoop(_, _, _, _, _, _, _)
\* a window over the latest candidates: each candidate, in the order given,
\* takes the slot of the smallest reward
AddLatestLoop(replay, i, states, paths, rewards, energies, it) ==
    IF i > Len(rewards) THEN replay
    ELSE AddLatestLoop([replay EXCEPT ![ArgMin(RewardsOf(replay))] =
                            Row(states, paths, rewards, energies, it, i)],
                       i + 1, states, paths, rewards, energies, it)

AddLatest(Bf, states, paths, rewards, energies, it) ==
    IF rewards = <<>> THEN [err |-> "ValueError", replay |-> Bf.replay, entered |-> <<>>]
    ELSE [err |-> "none",
          replay |-> AddLatestLoop(Bf.replay, 1, states, paths, rewards, energies, it),
          entered |-> [i \in 1..Len(rewards) |-> i]]

RECURSIVE AddUnmarkedLoop(_, _, _, _, _, _, _)
\* a loop that leaves the reward of the candidate that entered among the
\* candidates
AddUnmarkedLoop(R, rewards_new, states, paths, rewards, energies, it) ==
    IF /\ Len(R.entered) <= Len(rewards)
       /\ rewards_new[ArgMax(rewards_new)] > RewardsOf(R.replay)[ArgMin(RewardsOf(R.replay))]
    THEN LET idx_new_max == ArgMax(rewards_new)
         IN  AddUnmarkedLoop([replay |-> [R.replay EXCEPT ![ArgMin(RewardsOf(R.replay))] =
                                  Row(states, paths, rewards, energies, it, idx_new_max)],
                              entered |-> Append(R.entered, idx_new_max)],
                             rewards_new, states, paths, rewards, energies, it)
    ELSE R

RECURSIVE AddGreaterLoop(_, _, _, _, _, _, _)
\* the loop of _add_greater: while the largest reward left among the
\* candidates exceeds the smallest reward of the reservoir, the candidate
\* takes that slot and its reward is marked -1 among the candidates.  R is
\* [replay, entered], entered the candidates in the order in which they took a
\* slot; the loop is followed for Len(rewards) + 1 iterations at most.
AddGreaterLoop(R, rewards_new, states, paths, rewards, energies, it) ==
    IF /\ Len(R.entered) <= Len(rewards)
       /\ rewards_new[ArgMax(rewards_new)] > RewardsOf(R.replay)[ArgMin(RewardsOf(R.replay))]
    THEN LET idx_new_max == ArgMax(rewards_new)
         IN  AddGreaterLoop([replay |-> [R.replay EXCEPT ![ArgMin(RewardsOf(R.replay))] =
                                 Row(states, paths, rewards, energies, it, idx_new_max)],
                             entered |-> Append(R.entered, idx_new_max)],
                            [rewards_new EXCEPT ![idx_new_max] = -1],
                            states, paths, rewards, energies, it)
    ELSE R

\* Buffer._add_greater: np.max of no candidate and np.min of a reservoir
\* without slots raise (add calls it with a reservoir of at least one slot
\* only)
add_greater(Bf, states, paths, rewards, energies, it) ==
    IF rewards = <<>> \/ Bf.replay = <<>>
    THEN [err |-> "ValueError", replay |-> Bf.replay, entered |-> <<>>]
    ELSE LET R == AddGreaterLoop([replay |-> Bf.replay, entered |-> <<>>], rewards,
                                 states, paths, rewards, energies, it)
         IN  [err |-> "none", replay |-> R.replay, entered |-> R.entered]

\* a log that keeps the records of the last call only
AddLastOnly(Bf, states, paths, rewards, energies, it, buffer_name, criterion) ==
    IF buffer_name = "main"
    THEN [err |-> "none",
          Bf |-> [Bf EXCEPT !.main = [i \in 1..Len(states) |->
                                         Row(states, paths, rewards, energies, it, i)]]]
    ELSE IF buffer_name = "replay" /\ Bf.replay_capacity > 0 /\ criterion = "greater"
    THEN LET R == add_greater(Bf, states, paths, rewards, energies, it)
         IN  [err |-> R.err, Bf |-> [Bf EXCEPT !.replay = R.replay]]
    ELSE [err |-> "none", Bf |-> Bf]

\* Buffer.add
add(Bf, states, paths, rewards, energies, it, buffer_name, criterion) ==
    IF buffer_name = "main"
    THEN [err |-> "none",
          Bf |-> [Bf EXCEPT !.main = @ \o [i \in 1..Len(states) |->
                                             Row(states, paths, rewards, energies, it, i)]]]
    ELSE IF buffer_name = "replay" /\ Bf.replay_capacity > 0
    THEN IF criterion = "greater"
         THEN LET R == add_greater(Bf, states, paths, rewards, energies, it)
              IN  [err |-> R.err, Bf |-> [Bf EXCEPT !.replay = R.replay]]
         ELSE [err |-> "none", Bf |-> Bf]
    ELSE [err |-> "none", Bf |-> Bf]

(***************************************************************************)
(* History of the last operation                                           *)
(***************************************************************************)
NoLast ==
    [op |-> "init", b |-> 0, err |-> "none",
     backward |-> FALSE, train |-> TRUE, n |-> 0, ret |-> None,
     bs |-> <<>>, dropped |-> {},
     force |-> FALSE, policy |-> FALSE, proxy |-> FALSE, sort_by |-> "",
     e |-> 0, action |-> 0, state |-> None, done |-> NotGiven,
     states |-> <<>>, dones |-> <<>>, proxy_vals |-> Rat(0, 1), reward |-> Rat(0, 1),
     chained |-> FALSE,
     buffer |-> "", rewards |-> <<>>, given |-> <<>>, it |-> 0,
     sampling_method |-> "", mask |-> None, logits |-> <<>>, idx |-> 0,
     entered |-> <<>>, reward_norm |-> Rat(1, 1), reward_beta |-> Rat(1, 1),
     policy_outputs |-> <<>>, outputs |-> <<>>, temperature |-> 1, original |-> <<>>,
     sampler_mask |-> None]

Running == last.err = "none"

\* the derived caches read through GetCache
Caches == {"masks_forward", "masks_backward", "parents_all", "rewards"}

\* the availability flag of a derived cache
Available(B, which) ==
    CASE which = "masks_forward" -> B.masks_forward_available
      [] which = "masks_backward" -> B.masks_backward_available
      [] which = "parents_all" -> B.parents_all_available
      [] which = "parents" -> B.parents_available
      [] OTHER -> B.rewards_available

\* all rows of all batches
TotalRows == LET S[X \in SUBSET Batches] ==
                    IF X = {} THEN 0
                    ELSE LET b == CHOOSE b \in X : TRUE
                         IN  batch[b].size + S[X \ {b}]
             IN  S[Batches]

(***************************************************************************)
(* Actions                                                                 *)
(***************************************************************************)
Init ==
    /\ env = [e \in Envs |-> NewEnv(e)]
    /\ batch = [b \in Batches |-> NewBatch]
    /\ buffer = NewBuffer(0)
    /\ calls = NoCalls(TRUE)
    /\ last = NoLast

\* the sampler puts a fresh environment in a terminating state to sample
\* the trajectory backward
SetState(e, s) ==
    /\ Running
    /\ env[e].dir = "none"
    /\ env' = [env EXCEPT ![e] = [SetStateEnv(@, s, TRUE) EXCEPT !.dir = "bwd", !.start = s]]
    /\ last' = [NoLast EXCEPT !.op = "set_state"]
    /\ UNCHANGED <<batch, buffer, calls>>

\* env.step / env.step_backwards change the state object of the environment
\* in place: a row that holds the object of an environment of en shows its
\* new state
InPlace(B, en) ==
    [B EXCEPT !.states = [i \in 1..Len(@) |->
                            IF B.refs[i] # 0 THEN en[B.refs[i]].state ELSE @[i]]]

\* the environments of batch b the sampler can step in the given direction
Steppable(b, backward) ==
    {e \in Envs : /\ Owner(e) = b
                  /\ IF backward
                     THEN env[e].dir = "bwd" /\ (env[e].done \/ env[e].state # source)
                     ELSE env[e].dir \in {"none", "fwd"} /\ ~env[e].done}

\* the lists of one or two distinct such environments
Rounds(b, backward) ==
    LET P == Steppable(b, backward)
    IN  {<<e>> : e \in P} \cup {<<x[1], x[2]>> : x \in {y \in P \X P : y[1] # y[2]}}

\* One sampling round: the sampler steps each environment of es with its action
\* of as, in the direction given, and pushes the outcome of the steps into the
\* batch with add_to_batch.
SampleRound(b, es, as, backward, train) ==
    /\ Running
    /\ es \in Rounds(b, backward)
    /\ TotalRows + Len(es) <= MaxRows
    /\ LET pos(e) == CHOOSE i \in 1..Len(es) : es[i] = e
           en == [e \in Envs |->
                    IF e \notin Range(es) THEN env[e]
                    ELSE IF backward THEN StepBackwardsEnv(env[e], as[pos(e)])
                    ELSE [StepEnv(env[e], as[pos(e)]) EXCEPT !.dir = "fwd"]]
           ts == [i \in 1..Len(es) |->
                    [e |-> es[i], action |-> as[i],
                     valid |-> IF backward THEN StepBackwardsValid(env[es[i]], as[i])
                               ELSE StepValid(env[es[i]], as[i])]]
           R == add_to_batch(InPlace(batch[b], en), en, ts, backward, train)
       IN  /\ env' = en
           /\ batch' = [c \in Batches |-> IF c = b THEN R.B ELSE InPlace(batch[c], en)]
           /\ last' = [NoLast EXCEPT !.op = "add_to_batch", !.b = b, !.err = R.err,
                                        !.backward = backward, !.train = train,
                                        !.n = Stored(en, ts, train)]
    /\ UNCHANGED <<buffer, calls>>

\* a caller reads the states in policy format
GetStatesPolicy(b, force) ==
    /\ Running
    /\ LET R == get_states_policy(batch[b], force)
       IN  /\ batch' = [batch EXCEPT ![b] = R.B]
           /\ last' = [NoLast EXCEPT !.op = "get_states", !.b = b, !.err = R.err,
                                     !.ret = R.ret]
    /\ UNCHANGED <<env, buffer, calls>>

\* a caller reads the parents
GetParents(b, policy, force) ==
    /\ Running
    /\ LET R == get_parents(batch[b], policy, force)
       IN  /\ batch' = [batch EXCEPT ![b] = R.B]
           /\ last' = [NoLast EXCEPT !.op = "get_parents", !.b = b, !.err = R.err,
                                     !.ret = R.ret, !.policy = policy, !.force = force]
    /\ UNCHANGED <<env, buffer, calls>>

\* a caller reads one of the other derived caches
GetCache(b, which, force) ==
    /\ Running
    /\ which \in Caches
    /\ LET R == CASE which = "masks_forward" -> get_masks_forward(batch[b], force)
                  [] which = "masks_backward" -> get_masks_backward(batch[b], force)
                  [] which = "parents_all" -> get_parents_all(batch[b], force)
                  [] OTHER -> get_rewards(batch[b], force)
       IN  /\ batch' = [batch EXCEPT ![b] = R.B]
           /\ last' = [NoLast EXCEPT !.op = which, !.b = b, !.err = R.err,
                                     !.ret = R.ret, !.force = force]
    /\ UNCHANGED <<env, buffer, calls>>

\* a caller reads the forward masks of the parents of the rows
GetMasksForwardOfParents(b, force) ==
    /\ Running
    /\ LET R == get_masks_forward_of_parents(batch[b], force)
       IN  /\ batch' = [batch EXCEPT ![b] = R.B]
           /\ last' = [NoLast EXCEPT !.op = "masks_forward_of_parents", !.b = b,
                                     !.err = R.err, !.ret = R.ret, !.force = force]
    /\ UNCHANGED <<env, buffer, calls>>

\* a caller reads the states in the format asked for
GetStates(b, policy, proxy, force) ==
    /\ Running
    /\ LET R == get_states(batch[b], policy, proxy, force)
       IN  /\ batch' = [batch EXCEPT ![b] = R.B]
           /\ last' = [NoLast EXCEPT !.op = "get_states", !.b = b, !.err = R.err,
                                     !.ret = R.ret, !.force = force,
                                     !.policy = policy, !.proxy = proxy]
    /\ UNCHANGED <<env, buffer, calls>>

\* a caller reads the terminating states
GetTerminatingStates(b, sort_by, policy, proxy) ==
    /\ Running
    /\ LET R == get_terminating_states(batch[b], sort_by, policy, proxy)
       IN  last' = [NoLast EXCEPT !.op = "get_terminating_states", !.b = b,
                                 !.err = R.err, !.ret = R.ret, !.sort_by = sort_by,
                                 !.policy = policy, !.proxy = proxy]
    /\ UNCHANGED <<env, batch, buffer, calls>>

\* a caller reads the rewards of the terminating states
GetTerminatingRewards(b, sort_by, force) ==
    /\ Running
    /\ LET R == get_terminating_rewards(batch[b], sort_by, force)
       IN  /\ batch' = [batch EXCEPT ![b] = R.B]
           /\ last' = [NoLast EXCEPT !.op = "get_terminating_rewards", !.b = b,
                                     !.err = R.err, !.ret = R.ret, !.sort_by = sort_by,
                                     !.force = force]
    /\ UNCHANGED <<env, buffer, calls>>

\* the lists of one or two distinct batches other than a
MergeLists(a) ==
    LET O == Batches \ {a}
    IN  {<<b>> : b \in O} \cup {<<x[1], x[2]>> : x \in {y \in O \X O : y[1] # y[2]}}

RECURSIVE SumSize(_)
SumSize(bs) == IF bs = <<>> THEN 0 ELSE batch[Head(bs)].size + SumSize(Tail(bs))

\* the derived caches that are not available in batch a and in every batch of bs
NotInBoth(a, bs) ==
    {w \in Caches \cup {"parents"} :
        ~Available(batch[a], w) \/ \E i \in 1..Len(bs) : ~Available(batch[bs[i]], w)}

\* a caller merges the batches bs into batch a
Merge(a, bs) ==
    /\ Running
    /\ bs \in MergeLists(a)
    /\ TotalRows + SumSize(bs) <= MaxRows
    /\ LET S == merge(batch, env, a, bs)
       IN  /\ batch' = S.bt
           /\ env' = S.en
           /\ last' = [NoLast EXCEPT !.op = "merge", !.b = a, !.err = S.err,
                                     !.n = SumSize(bs), !.bs = bs,
                                     !.dropped = NotInBoth(a, bs)]
    /\ UNCHANGED <<buffer, calls>>

\* the sampler of one batch: every kind of round, and the reads of the parents
Next ==
    \/ \E e \in {1, 2}, s \in States : SetState(e, s)
    \/ \E backward \in BOOLEAN, train \in BOOLEAN :
         \E es \in Rounds(1, backward) : \E as \in [1..Len(es) -> Actions] :
            SampleRound(1, es, as, backward, train)

Spec == Init /\ [][Next]_vars

\* one batch whose parents are read while it is sampled
NextRead ==
    \/ \E e \in {1, 2}, s \in States : SetState(e, s)
    \/ \E backward \in BOOLEAN : \E e \in Steppable(1, backward), a \in Actions :
            SampleRound(1, <<e>>, <<a>>, backward, TRUE)
    \/ \E force \in BOOLEAN : GetStatesPolicy(1, force)
    \/ \E policy \in BOOLEAN, force \in BOOLEAN : GetParents(1, policy, force)

SpecRead == Init /\ [][NextRead]_vars

\* one batch whose forward masks are read while it is sampled
NextMasks ==
    \/ \E e \in {1, 2}, s \in States : SetState(e, s)
    \/ \E backward \in BOOLEAN : \E e \in Steppable(1, backward), a \in Actions :
            TotalRows < MaxReadRows /\ SampleRound(1, <<e>>, <<a>>, backward, TRUE)
    \/ \E force \in BOOLEAN : GetCache(1, "masks_forward", force)
    \/ \E force \in BOOLEAN : GetMasksForwardOfParents(1, force)

SpecMasks == Init /\ [][NextMasks]_vars

\* batches that are sampled and merged
NextMerge ==
    \/ \E e \in Envs, s \in States : SetState(e, s)
    \/ \E b \in Batches, backward \in BOOLEAN :
         \E e \in Steppable(b, backward), a \in Actions :
            TotalRows < MaxMergeRows /\ SampleRound(b, <<e>>, <<a>>, backward, TRUE)
    \/ \E a \in Batches : \E bs \in MergeLists(a) :
            TotalRows <= MaxMergeRows /\ Merge(a, bs)

SpecMerge == Init /\ [][NextMerge]_vars

\* no derived cache of B other than which has been computed
OnlyCache(B, which) ==
    /\ \A w \in (Caches \cup {"parents"}) \ {which} : ~Available(B, w)
    /\ which # "parents" => B.parents_policy.kind = "none"

\* batches that are sampled forward, read (one kind of cache a batch) and merged
NextCache ==
    \/ \E e \in {1, 3}, a \in Actions :
            TotalRows < MaxCacheRows /\ SampleRound(Owner(e), <<e>>, <<a>>, FALSE, TRUE)
    \/ \E b \in {1, 2}, which \in Caches :
            OnlyCache(batch[b], which) /\ GetCache(b, which, FALSE)
    \/ \E b \in {1, 2} :
            OnlyCache(batch[b], "parents") /\ GetParents(b, FALSE, FALSE)
    \/ \E a \in {1, 2} :
            TotalRows + batch[3 - a].size <= MaxCacheRows /\ Merge(a, <<3 - a>>)

SpecCache == Init /\ [][NextCache]_vars

\* two batches that are sampled forward, whose parents_all are read and that
\* are merged
NextAllMerge ==
    \/ \E e \in {1, 3}, a \in Actions :
            TotalRows < MaxCacheRows /\ SampleRound(Owner(e), <<e>>, <<a>>, FALSE, TRUE)
    \/ \E b \in {1, 2}, force \in BOOLEAN : GetCache(b, "parents_all", force)
    \/ \E a \in {1, 2} :
            TotalRows + batch[3 - a].size <= MaxReadRows /\ Merge(a, <<3 - a>>)

SpecAllMerge == Init /\ [][NextAllMerge]_vars

\* a batch made for environments that may be conditional or continuous
InitConv ==
    /\ env = [e \in Envs |-> NewEnv(e)]
    /\ \E conditional \in BOOLEAN, continuous \in BOOLEAN :
          batch = [b \in Batches |->
                     IF b = 1
                     THEN [NewBatch EXCEPT !.conditional = conditional,
                                           !.continuous = continuous]
                     ELSE NewBatch]
    /\ buffer = NewBuffer(0)
    /\ calls = NoCalls(TRUE)
    /\ last = NoLast

\* the values of sort_by that callers pass
SortBys == {"insertion", "trajectory", "other"}

\* one batch that is sampled and read in every format
NextConv ==
    \/ \E s \in States : SetState(1, s)
    \/ \E backward \in BOOLEAN : \E e \in Steppable(1, backward), a \in Actions :
            TotalRows < MaxCacheRows /\ SampleRound(1, <<e>>, <<a>>, backward, TRUE)
    \/ \E policy \in BOOLEAN, proxy \in BOOLEAN, force \in BOOLEAN :
            GetStates(1, policy, proxy, force)
    \/ \E sort_by \in SortBys, policy \in BOOLEAN, proxy \in BOOLEAN :
            GetTerminatingStates(1, sort_by, policy, proxy)
    \/ \E sort_by \in SortBys, force \in BOOLEAN :
            GetTerminatingRewards(1, sort_by, force)
    \/ \E which \in {"parents_all", "rewards"}, force \in BOOLEAN :
            GetCache(1, which, force)

SpecConv == InitConv /\ [][NextConv]_vars

\* one batch, sampled in both directions, whose parents_all are read
NextAll ==
    \/ \E s \in States : SetState(1, s)
    \/ \E backward \in BOOLEAN : \E e \in Steppable(1, backward), a \in Actions :
            TotalRows < MaxReadRows /\ SampleRound(1, <<e>>, <<a>>, backward, TRUE)
    \/ \E force \in BOOLEAN : GetCache(1, "parents_all", force)

SpecAll == Init /\ [][NextAll]_vars

\* a caller puts environment e in any state, done or not
EnvSetState(e, s, d) ==
    /\ env' = [env EXCEPT ![e] = SetStateEnv(@, s, d)]
    /\ last' = [NoLast EXCEPT !.op = "set_state", !.e = e]
    /\ UNCHANGED <<batch, buffer, calls>>

\* a caller steps environment e with the step of the base class; an exception
\* ends the call, the environment stays in use
EnvStep(e, a) ==
    /\ LET R == step(env[e], a)
       IN  /\ env' = [env EXCEPT ![e] = R.E]
           /\ last' = [NoLast EXCEPT !.op = "step", !.e = e, !.action = a,
                                     !.err = R.err, !.ret = R.ret]
    /\ UNCHANGED <<batch, buffer, calls>>

\* a caller resets environment e
EnvReset(e) ==
    /\ env' = [env EXCEPT ![e] = reset(@, InitId(e))]
    /\ last' = [NoLast EXCEPT !.op = "reset", !.e = e]
    /\ UNCHANGED <<batch, buffer, calls>>

\* a caller asks environment e, with the get_parents of the base class, for
\* the parents of a state or of its own state
EnvGetParents(e, state, done) ==
    /\ last' = [NoLast EXCEPT !.op = "env_get_parents", !.e = e,
                              !.state = state, !.done = done,
                              !.ret = base_get_parents(env[e], state, done)]
    /\ UNCHANGED <<env, batch, buffer, calls>>

\* environments of the base class used directly
NextEnv ==
    \/ \E e \in Envs, s \in States, d \in BOOLEAN : EnvSetState(e, s, d)
    \/ \E e \in Envs, a \in Actions : EnvStep(e, a)
    \/ \E e \in Envs : EnvReset(e)
    \/ \E e \in Envs, state \in {None} \cup {List(s) : s \in States},
          done \in {NotGiven, "True", "False"} : EnvGetParents(e, state, done)

SpecEnv == Init /\ [][NextEnv]_vars

\* the sampler steps environment e, which is not done, forward with the step
\* of the base class and passes the outcome to add_to_batch with train = True;
\* an exception of the step ends the round before add_to_batch is called
SampleStep(e, a) ==
    /\ ~env[e].done
    /\ Owner(e) = 1
    /\ batch[1].size < MaxRows
    /\ LET R == step(env[e], a)
           A == IF R.err # "none" THEN [B |-> batch[1], err |-> R.err]
                ELSE add_to_batch(batch[1], [env EXCEPT ![e] = R.E],
                                  <<[e |-> e, action |-> a, valid |-> R.ret.valid]>>,
                                  FALSE, TRUE)
       IN  /\ env' = [env EXCEPT ![e] = R.E]
           /\ batch' = [batch EXCEPT ![1] = A.B]
           /\ last' = [NoLast EXCEPT !.op = "sample_step", !.b = 1, !.e = e,
                                     !.action = a, !.err = A.err]
    /\ UNCHANGED <<buffer, calls>>

\* environments of the base class that a sampler resets and steps forward
NextStep ==
    \/ \E e \in Envs, s \in States, d \in BOOLEAN : EnvSetState(e, s, d)
    \/ \E e \in Envs : EnvReset(e)
    \/ \E e \in Envs, a \in Actions : SampleStep(e, a)

SpecStep == Init /\ [][NextStep]_vars

\* an environment with reward attributes c
RewardEnv(e, c) ==
    [id |-> InitId(e), state |-> source, done |-> FALSE, n_actions |-> 0,
     dir |-> "none", start |-> source,
     reward_func |-> c.reward_func, reward_beta |-> c.reward_beta,
     reward_norm |-> c.reward_norm, denorm_proxy |-> c.denorm_proxy,
     energies_stats |-> c.energies_stats]

\* the reward attributes environments are made with: a form the code knows or
\* another one, beta and norm positive, statistics given where the scorer
\* value is de-normalized
RewardConfigs ==
    {c \in [reward_func : {"power", "boltzmann", "linear"},
            reward_beta : {Rat(1, 2), Rat(1, 1), Rat(2, 1)},
            reward_norm : {Rat(1, 1), Rat(4, 1)},
            denorm_proxy : BOOLEAN,
            energies_stats : {<<>>,
                              <<Rat(0, 1), Rat(0, 1), Rat(0, 1), Rat(4, 1)>>,
                              <<Rat(0, 1), Rat(0, 1), Rat(1, 1), Rat(1, 1)>>}] :
        c.denorm_proxy = (c.energies_stats # <<>>)}

\* the values the scorer returns: 0 and the squares up to MaxScorer^2, with
\* both signs
ScorerValues ==
    {Rat(i * i, 1) : i \in 0..MaxScorer} \cup {Rat(-(i * i), 1) : i \in 0..MaxScorer}

InitReward ==
    /\ \E c \in RewardConfigs :
          env = [e \in Envs |-> IF e = 1 THEN RewardEnv(e, c)
                                ELSE RewardEnv(e, DefaultReward)]
    /\ batch = [b \in Batches |-> NewBatch]
    /\ buffer = NewBuffer(0)
    /\ calls = NoCalls(TRUE)
    /\ last = NoLast

\* a caller asks environment e for the reward of a state or of its own state
Reward(e, state, done) ==
    /\ ExactReward(env[e], Scorer(IF state.kind = "none" THEN env[e].state
                                  ELSE state.v))
    /\ LET R == reward(env[e], state, done)
       IN  last' = [NoLast EXCEPT !.op = "reward", !.e = e, !.state = state,
                                 !.done = done, !.err = R.err, !.ret = R.ret]
    /\ UNCHANGED <<env, batch, buffer, calls>>

\* a caller asks environment e for the rewards of a list of states
RewardBatch(e, states, done) ==
    /\ \A i \in 1..Len(states) : ExactReward(env[e], Scorer(states[i]))
    /\ LET R == reward_batch(env[e], states, done)
       IN  last' = [NoLast EXCEPT !.op = "reward_batch", !.e = e,
                                 !.states = states, !.dones = done,
                                 !.err = R.err, !.ret = R.ret]
    /\ UNCHANGED <<env, batch, buffer, calls>>

\* a caller shapes a scorer value into a reward
Proxy2Reward(e, proxy_vals) ==
    /\ ExactReward(env[e], proxy_vals)
    /\ LET R == proxy2reward(env[e], proxy_vals)
       IN  last' = [NoLast EXCEPT !.op = "proxy2reward", !.e = e,
                                 !.proxy_vals = proxy_vals,
                                 !.err = R.err, !.ret = R.ret]
    /\ UNCHANGED <<env, batch, buffer, calls>>

\* a caller converts a reward back: the reward proxy2reward just returned
\* or, after anything else, the reward 1
Reward2Proxy(e) ==
    /\ LET chained == last.op = "proxy2reward" /\ last.e = e /\ last.err = "none"
           r == IF chained THEN last.ret ELSE Rat(1, 1)
           R == reward2proxy(env[e], r)
       IN  /\ ExactProxy(env[e], r)
           /\ last' = [NoLast EXCEPT !.op = "reward2proxy", !.e = e,
                                     !.proxy_vals = IF chained THEN last.proxy_vals
                                                    ELSE Rat(0, 1),
                                     !.reward = r, !.chained = chained,
                                     !.err = R.err, !.ret = R.ret]
    /\ UNCHANGED <<env, batch, buffer, calls>>

\* lists of at most n states with as many done flags
StateLists(n) ==
    UNION {[1..m -> States] : m \in 0..n}

\* an environment whose rewards are read
NextReward ==
    \/ \E s \in States, d \in BOOLEAN : EnvSetState(1, s, d)
    \/ \E state \in {None} \cup {List(s) : s \in States},
          done \in {NotGiven, "True", "False"} : Reward(1, state, done)
    \/ \E states \in StateLists(MaxBatch) : \E done \in [1..Len(states) -> BOOLEAN] :
            RewardBatch(1, states, done)
    \/ \E v \in ScorerValues : Proxy2Reward(1, v)
    \/ Reward2Proxy(1)

SpecReward == InitReward /\ [][NextReward]_vars

\* a number above 0
Positive(x) == x.k = "rat" /\ x.n > 0

\* GFlowNetEnv.__init__ with the reward attributes c: the assertions of lines
\* 56-58 (min_reward is 1e-8); the result is [E, err]
GFlowNetEnvInit(e, c) ==
    IF Positive(c.reward_norm) /\ Positive(c.reward_beta)
    THEN [E |-> RewardEnv(e, c), err |-> "none"]
    ELSE [E |-> None, err |-> "AssertionError"]

\* GFlowNetEnv.set_reward_norm(reward_norm)
set_reward_norm(E, reward_norm) == [E EXCEPT !.reward_norm = reward_norm]

\* the values callers give for reward_norm and reward_beta
NormValues == {Rat(-1, 1), Rat(0, 1), Rat(1, 2), Rat(1, 1), Rat(4, 1)}

\* a caller makes environment e anew; if the constructor raises, the caller
\* keeps the environment it had
Construct(e, c) ==
    /\ LET R == GFlowNetEnvInit(e, c)
       IN  /\ env' = [env EXCEPT ![e] = IF R.err = "none" THEN R.E ELSE @]
           /\ last' = [NoLast EXCEPT !.op = "init_env", !.e = e, !.err = R.err,
                                     !.reward_norm = c.reward_norm,
                                     !.reward_beta = c.reward_beta]
    /\ UNCHANGED <<batch, buffer, calls>>

\* a caller sets the norm of environment e
SetRewardNorm(e, reward_norm) ==
    /\ env' = [env EXCEPT ![e] = set_reward_norm(@, reward_norm)]
    /\ last' = [NoLast EXCEPT !.op = "set_reward_norm", !.e = e,
                              !.reward_norm = reward_norm]
    /\ UNCHANGED <<batch, buffer, calls>>

\* environments that are made and whose norm is set
NextNorm ==
    \/ \E norm \in NormValues, beta \in NormValues :
            Construct(1, [DefaultReward EXCEPT !.reward_norm = norm, !.reward_beta = beta])
    \/ \E norm \in NormValues : SetRewardNorm(1, norm)
    \/ \E s \in States, d \in BOOLEAN : EnvSetState(1, s, d)

SpecNorm == InitReward /\ [][NextNorm]_vars

\* a buffer made with a reservoir of replay_capacity slots
InitBuffer ==
    /\ env = [e \in Envs |-> NewEnv(e)]
    /\ batch = [b \in Batches |-> NewBatch]
    /\ \E replay_capacity \in 0..MaxCapacity : buffer = NewBuffer(replay_capacity)
    /\ calls = NoCalls(TRUE)
    /\ last = NoLast

\* the rewards of the candidates
RewardValues == {2 * i - 1 : i \in 1..MaxGiven}

\* the lists of rewards of n candidates
RewardLists(n) == [1..n -> RewardValues]

\* the state of candidate i of a call, which is its path too
CandidateState(i) == [j \in 1..i |-> 1]

\* the training loop gives the candidates of an iteration to the buffer; the
\* energy of a candidate is the opposite of its reward
BufferAdd(rewards, buffer_name) ==
    /\ LET states == [i \in 1..Len(rewards) |-> CandidateState(i)]
           energies == [i \in 1..Len(rewards) |-> Rat(-rewards[i], 1)]
           it == last.it + 1
           R == add(buffer, states, states, rewards, energies, it, buffer_name, "greater")
       IN  /\ it <= MaxCalls
           /\ buffer' = R.Bf
           /\ last' = [NoLast EXCEPT !.op = "add", !.err = R.err, !.buffer = buffer_name,
                                     !.rewards = rewards, !.states = states, !.it = it,
                                     !.given = IF buffer_name = "replay"
                                               THEN last.given \o rewards
                                               ELSE last.given]
    /\ UNCHANGED <<env, batch, calls>>

NextBuffer ==
    \E n \in 0..(MaxGiven - Len(last.given) - Len(buffer.main)) : \E rewards \in RewardLists(n), buffer_name \in {"main", "replay"} :
        BufferAdd(rewards, buffer_name)

SpecBuffer == InitBuffer /\ [][NextBuffer]_vars

\* the rewards of the candidates given to _add_greater directly: below, at
\* and above the reward of an empty slot
GreaterValues == {-3, -1, 0, 2}

\* a caller gives the candidates of an iteration to _add_greater
AddGreater(rewards) ==
    /\ LET states == [i \in 1..Len(rewards) |-> CandidateState(i)]
           energies == [i \in 1..Len(rewards) |-> Rat(-rewards[i], 1)]
           it == last.it + 1
           R == add_greater(buffer, states, states, rewards, energies, it)
       IN  /\ it <= MaxCalls
           /\ buffer' = [buffer EXCEPT !.replay = R.replay]
           /\ last' = [NoLast EXCEPT !.op = "_add_greater", !.err = R.err,
                                     !.rewards = rewards, !.states = states, !.it = it,
                                     !.entered = R.entered]
    /\ UNCHANGED <<env, batch, calls>>

NextGreater ==
    \E n \in 0..MaxBatch : \E rewards \in [1..n -> GreaterValues] : AddGreater(rewards)

SpecGreater == InitBuffer /\ [][NextGreater]_vars

\* the action space of a concrete environment of dim actions
SpaceOf(dim) == [i \in 1..dim |-> i - 1]

\* the outputs of the policy model: logits at and around -loginf, and small
\* ones
PolicyLogits == {-loginf - 2, -loginf, -loginf + 6, -loginf + 8, 0, 2}

\* the temperatures given
Temperatures == {1, 2}

\* the sampler asks environment e for an action, given one row of policy
\* outputs
SampleActions(e, policy_outputs, sampling_method, mask_invalid_actions, temperature_logits) ==
    /\ \A i \in 1..Len(policy_outputs) : policy_outputs[i] % temperature_logits = 0
    /\ LET dim == Len(policy_outputs)
           logits == MaskedLogits(policy_outputs, sampling_method,
                                  mask_invalid_actions, temperature_logits)
           draws == IF sampling_method \in {"uniform", "policy"}
                    THEN Sampleable(logits) ELSE {0}
       IN  \E idx \in draws :
              LET R == sample_actions(SpaceOf(dim), policy_outputs, sampling_method,
                                      mask_invalid_actions, temperature_logits, idx)
              IN  last' = [NoLast EXCEPT !.op = "sample_actions", !.e = e,
                                        !.err = R.err, !.ret = R.ret,
                                        !.sampling_method = sampling_method,
                                        !.mask = mask_invalid_actions,
                                        !.logits = R.logits, !.idx = idx]
    /\ UNCHANGED <<env, batch, buffer, calls>>

\* the masks given with dim policy outputs
Masks(dim) == {None} \cup {Tensor(m) : m \in [1..dim -> BOOLEAN]}

\* the sampler of environment 1: it samples an action, then steps
NextSample ==
    \/ \E a \in Actions : last.op = "sample_actions" /\ EnvStep(1, a)
    \/ \E dim \in 1..MaxDim :
         \E policy_outputs \in [1..dim -> PolicyLogits], mask \in Masks(dim),
            sampling_method \in {"uniform", "policy", "other"},
            temperature_logits \in Temperatures :
              /\ last.op # "sample_actions"
              /\ SampleActions(1, policy_outputs, sampling_method, mask, temperature_logits)

SpecSample == Init /\ [][NextSample]_vars

\* the trainer asks environment e for an action given its row of policy
\* outputs, which it keeps
SampleOutputs(e, policy_outputs, sampling_method, mask_invalid_actions, temperature_logits) ==
    /\ \A i \in 1..Len(policy_outputs) : policy_outputs[i] % temperature_logits = 0
    /\ LET dim == Len(policy_outputs)
           logits == MaskedLogits(policy_outputs, sampling_method,
                                  mask_invalid_actions, temperature_logits)
       IN  \E idx \in Sampleable(logits) :
              LET R == sample_actions(SpaceOf(dim), policy_outputs, sampling_method,
                                      mask_invalid_actions, temperature_logits, idx)
              IN  last' = [NoLast EXCEPT !.op = "sample_actions", !.e = e,
                                        !.err = R.err, !.ret = R.ret,
                                        !.sampling_method = sampling_method,
                                        !.mask = mask_invalid_actions,
                                        !.sampler_mask = mask_invalid_actions,
                                        !.temperature = temperature_logits,
                                        !.logits = R.logits, !.idx = idx,
                                        !.original = policy_outputs,
                                        !.policy_outputs = policy_outputs,
                                        !.outputs = OutputsAfterSample(
                                                       policy_outputs, sampling_method,
                                                       mask_invalid_actions,
                                                       temperature_logits)]
    /\ UNCHANGED <<env, batch, buffer, calls>>

\* the trainer asks environment e for the log-probability of the action
\* sampled, given the row of policy outputs it gave to sample_actions
GetLogprobs(e, mask_invalid_actions) ==
    /\ last.op = "sample_actions"
    /\ last.err = "none"
    /\ LET R == get_logprobs(SpaceOf(Len(last.outputs)), last.outputs, last.ret.v,
                             mask_invalid_actions)
       IN  last' = [last EXCEPT !.op = "get_logprobs", !.err = R.err,
                                !.mask = mask_invalid_actions,
                                !.policy_outputs = last.outputs,
                                !.logits = R.logits, !.idx = R.idx,
                                !.outputs = R.outputs]
    /\ UNCHANGED <<env, batch, buffer, calls>>

\* a trainer that samples an action and then asks for its log-probability
NextLogprobs ==
    \/ \E dim \in 1..MaxDim :
         \E policy_outputs \in [1..dim -> PolicyLogits], mask \in Masks(dim),
            sampling_method \in {"uniform", "policy"},
            temperature_logits \in Temperatures :
              /\ last.op = "init"
              /\ SampleOutputs(1, policy_outputs, sampling_method, mask, temperature_logits)
    \/ \E mask \in {None, last.sampler_mask} : GetLogprobs(1, mask)

SpecLogprobs == Init /\ [][NextLogprobs]_vars

\* the callers of add_to_batch either serialize their invocations or do not
InitInterleave ==
    /\ env = [e \in Envs |-> NewEnv(e)]
    /\ batch = [b \in Batches |-> NewBatch]
    /\ buffer = NewBuffer(0)
    /\ \E serial \in BOOLEAN : calls = NoCalls(serial)
    /\ last = NoLast

\* no invocation of add_to_batch is running
Quiet == \A t \in Threads : calls.th[t].pc = "idle"

\* rows stored and rows the running invocations are to store
RowsInFlight == batch[1].size + Cardinality({t \in Threads : calls.th[t].pc # "idle"})

\* the sampler of environment t steps it and invokes add_to_batch of batch 1
\* with the one tuple of that step (train = True); the masks are computed
\* first (lines 180-191), a tuple that is not valid is skipped
CallBegin(t, a, backward) ==
    /\ Running
    /\ calls.th[t].pc = "idle"
    /\ calls.serial => Quiet
    /\ t \in Steppable(1, backward)
    /\ RowsInFlight < MaxThreadRows
    /\ LET E == IF backward THEN StepBackwardsEnv(env[t], a)
                ELSE [StepEnv(env[t], a) EXCEPT !.dir = "fwd"]
           en == [env EXCEPT ![t] = E]
           valid == IF backward THEN StepBackwardsValid(env[t], a) ELSE StepValid(env[t], a)
       IN  /\ env' = en
           /\ batch' = [c \in Batches |-> InPlace(batch[c], en)]
           /\ calls' = IF Skipped(E, valid, TRUE) THEN calls
                       ELSE [calls EXCEPT !.th[t] =
                               [NoCall EXCEPT !.pc = "envs", !.action = a,
                                              !.mask = DefaultMask(E, backward, TRUE),
                                              !.backward = backward]]
           /\ last' = [NoLast EXCEPT !.op = "call", !.b = 1, !.e = t,
                                     !.backward = backward]
    /\ UNCHANGED buffer

\* the invocation of the sampler of environment t runs its next statement
CallStep(t) ==
    /\ calls.th[t].pc # "idle"
    /\ LET R == Statement(batch[1], env[t], t, calls.th[t])
       IN  /\ batch' = [batch EXCEPT ![1] = R.B]
           /\ calls' = [calls EXCEPT !.th[t] = R.c]
           /\ last' = [NoLast EXCEPT !.op = IF R.c.pc = "idle" THEN "add_to_batch"
                                            ELSE "statement",
                                     !.b = 1, !.e = t, !.err = R.err,
                                     !.backward = calls.th[t].backward]
    /\ UNCHANGED <<env, buffer>>

NextInterleave ==
    \/ \E t \in Threads, s \in States : Quiet /\ SetState(t, s)
    \/ \E t \in Threads, a \in Actions, backward \in BOOLEAN : CallBegin(t, a, backward)
    \/ \E t \in Threads : CallStep(t)

SpecInterleave == InitInterleave /\ [][NextInterleave]_vars

(***************************************************************************)
(* Properties                                                              *)
(***************************************************************************)
\* the row-index lists of B partition {0..size-1} and row i is in the list of
\* the trajectory traj_indices[i]
Partition(B) ==
    LET batch_indices == Concat(Values(B.trajectories))
    IN  /\ Range(batch_indices) = 0..(B.size - 1)
        /\ Len(batch_indices) = B.size
        /\ \A i \in 0..(B.size - 1) :
              /\ i + 1 <= Len(B.traj_indices)
              /\ HasKey(B.trajectories, B.traj_indices[i + 1])
              /\ i \in Range(Val(B.trajectories, B.traj_indices[i + 1]))

\* the columns whose length is_valid compares with size
Columns(B) == <<B.states, B.actions, B.done, B.traj_indices, B.state_indices>>

\* the rows that B holds are rows of C with the same content
RowsKept(B, C) ==
    /\ C.size >= B.size
    /\ \A i \in 1..B.size :
          /\ i <= Len(C.states) /\ C.states[i] = B.states[i]
          /\ i <= Len(C.actions) /\ C.actions[i] = B.actions[i]
          /\ i <= Len(C.done) /\ C.done[i] = B.done[i]
          /\ i <= Len(C.traj_indices) /\ C.traj_indices[i] = B.traj_indices[i]

\* the (state, action, done) of the rows of B at the indices of L, in order
RowsAt(B, L) ==
    [k \in 1..Len(L) |-> [state |-> B.states[L[k] + 1],
                          action |-> B.actions[L[k] + 1],
                          done |-> B.done[L[k] + 1]]]

\* the rows stored when the actions of state s and then the stop action are
\* sampled forward from the source
ForwardRows(s) ==
    [k \in 1..(Len(s) + 1) |->
        IF k <= Len(s)
        THEN [state |-> SubSeq(s, 1, k), action |-> s[k], done |-> FALSE]
        ELSE [state |-> s, action |-> eos, done |-> TRUE]]

\* the index list of the trajectory of environment e in its batch (empty if
\* the batch holds no row of it)
TrajOf(e) ==
    LET B == batch[Owner(e)]
    IN  IF HasKey(B.trajectories, env[e].id) /\ HasKey(B.envs, env[e].id)
           /\ Val(B.envs, env[e].id) = e
        THEN Val(B.trajectories, env[e].id) ELSE <<>>

\* C1: after any sequence of add_to_batch and merge calls, is_valid() is True
\* of every batch
C1_IsValid == \A b \in Batches : is_valid(batch[b])

\* C2: a merge of valid batches completes, and the receiving batch then holds
\* the rows of all of them and as many distinct trajectory ids as they held
\* together
C2_MergeSizes ==
    [][last'.op = "merge" =>
          LET a == last'.b
              bs == last'.bs
              NTraj[i \in 0..Len(bs)] ==
                  IF i = 0 THEN Len(batch[a].trajectories)
                  ELSE NTraj[i - 1] + Len(batch[bs[i]].trajectories)
          IN  /\ last'.err = "none"
              /\ batch'[a].size = batch[a].size + SumSize(bs)
              /\ Cardinality(Keys(batch'[a].trajectories)) = NTraj[Len(bs)]
              /\ Len(batch'[a].trajectories) = NTraj[Len(bs)]]_vars

\* C3: after any sequence of add_to_batch calls the index lists of
\* trajectories partition {0..size-1}, row i in the list of traj_indices[i]
C3_Partition == \A b \in Batches : Partition(batch[b])

\* C4: a merge that fails leaves the receiving batch as it was
C4_MergeAtomic ==
    [][(last'.op = "merge" /\ last'.err # "none") =>
          batch'[last'.b] = batch[last'.b]]_vars

\* the outcome [err, ret] of a read of a derived cache of B that recomputes
\* the cache over all rows of B
Fresh(B, which) ==
    LET R == CASE which = "masks_forward" -> get_masks_forward(B, TRUE)
               [] which = "masks_backward" -> get_masks_backward(B, TRUE)
               [] which = "parents_all" -> get_parents_all(B, TRUE)
               [] which = "parents" -> get_parents(B, FALSE, TRUE)
               [] OTHER -> get_rewards(B, TRUE)
    IN  [err |-> R.err, ret |-> R.ret]

\* the cache that the read recorded in l is of
ReadOf(l) == IF l.op = "get_parents" THEN "parents" ELSE l.op

\* C5: the read, without force_recompute, that follows a merge returns the
\* cache computed over all rows of the merged batch if the cache was not
\* available in both batches
C5_DroppedRecomputed ==
    [][(/\ last.op = "merge" /\ last.err = "none"
        /\ last'.op \in Caches \cup {"get_parents"}
        /\ last'.b = last.b
        /\ ReadOf(last') \in last.dropped) =>
          [err |-> last'.err, ret |-> last'.ret] = Fresh(batch[last.b], ReadOf(last'))]_vars

\* C6: one add_to_batch call makes size and the length of every column grow
\* by the number of tuples that are valid (and done, if train is False)
C6_RowsAdded ==
    [][last'.op = "add_to_batch" =>
          LET B == batch[last'.b]
              C == batch'[last'.b]
          IN  /\ C.size = B.size + last'.n
              /\ \A i \in 1..Len(Columns(B)) :
                    Len(Columns(C)[i]) = Len(Columns(B)[i]) + last'.n]_vars

\* C7: add_to_batch and merge never decrease the size of the receiving batch
\* nor change the state, action, done flag or trajectory id of a row it holds,
\* and no row changes when an environment is stepped
C7_RowsKept ==
    [][\A b \in Batches :
          (last'.op = "merge" /\ b \in Range(last'.bs)) \/ RowsKept(batch[b], batch'[b])]_vars

\* a merge of rows into a batch that held two rows of one environment, which
\* was stepped again after the first of them was stored
C7_Witness ==
    /\ last.op = "merge"
    /\ last.n >= 1
    /\ LET B == batch[last.b]
       IN  /\ B.size >= last.n + 2
           /\ \E t \in 1..Len(B.trajectories) :
                 /\ Len(B.trajectories[t].v) >= 2
                 /\ \A k \in 1..Len(B.trajectories[t].v) :
                       B.trajectories[t].v[k] < B.size - last.n

\* C8: the first row of a trajectory that add_to_batch adds in backward mode
\* is stored with done = True, every other backward row with the done flag of
\* its environment
C8_BackwardDone ==
    [][(last'.op = "add_to_batch" /\ last'.backward) =>
          LET B == batch[last'.b]
              C == batch'[last'.b]
          IN  \A i \in (Len(B.done) + 1)..Len(C.done) :
                  C.done[i] = IF ~HasKey(B.trajectories, C.traj_indices[i])
                              THEN TRUE
                              ELSE env'[Val(C.envs, C.traj_indices[i])].done]_vars

\* a first backward row stored with done = True while its environment is
\* not done
C8_Witness ==
    /\ last.op = "add_to_batch" /\ last.backward /\ last.n >= 1
    /\ LET B == batch[last.b]
       IN  /\ B.size >= 1
           /\ Len(Val(B.trajectories, B.traj_indices[B.size])) = 1
           /\ B.done[B.size] = TRUE
           /\ env[Val(B.envs, B.traj_indices[B.size])].done = FALSE

\* C9: the rows of a trajectory sampled backward down to the source, every
\* step stored, read in the order of its index list, are the rows stored when
\* the same actions are sampled forward
C9_BackwardAsForward ==
    \A e \in Envs :
        (/\ env[e].dir = "bwd" /\ env[e].state = source /\ ~env[e].done
         /\ Len(TrajOf(e)) = Len(env[e].start) + 1
         /\ Running) =>
            RowsAt(batch[Owner(e)], TrajOf(e)) = ForwardRows(env[e].start)

\* C10: get_parents() returns one parent per row: the source for the first row
\* of an index list, the state of the previous row of the list for the others
C10_Parents ==
    (last.op = "get_parents" /\ last.ret.kind # "tensor") =>
        LET B == batch[last.b]
            P == last.ret.v
        IN  /\ last.err = "none"
            /\ Len(P) = B.size
            /\ \A t \in 1..Len(B.trajectories) :
                  LET L == B.trajectories[t].v
                  IN  \A k \in 1..Len(L) :
                         P[L[k] + 1] = IF k = 1 THEN source ELSE B.states[L[k - 1] + 1]

\* the rewards of the rows of B: 0 where done is False, the shaped reward of
\* the state of the row where done is True
RowRewards(B) ==
    [i \in 1..B.size |-> IF B.done[i] THEN ProxyReward(B.states[i]) ELSE 0]

\* C11: get_rewards() returns one reward per row, 0 at the rows that are not
\* done and the shaped reward of the row's own state at the rows that are
C11_Rewards ==
    last.op = "rewards" =>
        /\ last.err = "none"
        /\ last.ret.kind = "tensor"
        /\ last.ret.v = RowRewards(batch[last.b])

\* the value of a derived cache that B stores, as a read returns it
CacheOf(B, which) ==
    CASE which = "masks_forward" -> B.masks_invalid_actions_forward
      [] which = "masks_backward" -> Tensor(B.masks_invalid_actions_backward.v)
      [] which = "parents_all" -> B.parents_all
      [] which = "parents" -> B.parents
      [] OTHER -> B.rewards

\* C12: add_to_batch changes no availability flag, and a read, without
\* force_recompute, of a cache whose flag is True returns the stored value and
\* computes nothing, also when rows were added since
C12_NoInvalidation ==
    [][/\ last'.op = "add_to_batch" =>
             \A b \in Batches, w \in Caches \cup {"parents"} :
                 Available(batch'[b], w) = Available(batch[b], w)
       /\ (/\ last'.op \in Caches \cup {"get_parents"}
           /\ ~last'.force
           /\ Available(batch[last'.b], ReadOf(last'))) =>
             /\ last'.err = "none"
             /\ last'.ret = CacheOf(batch[last'.b], ReadOf(last'))
             /\ batch' = batch]_vars

\* a read of the rewards that returns fewer rewards than the batch has rows
C12_Witness ==
    /\ last.op = "rewards" /\ ~last.force /\ last.err = "none"
    /\ last.ret.kind = "tensor"
    /\ batch[last.b].rewards_available
    /\ Len(last.ret.v) < batch[last.b].size

\* some row of B stores an action that is not among the parent actions its
\* environment returns for the row
ActionNotAmongParents(B) ==
    \E i \in 1..B.size :
        B.actions[i] \notin Range(env_get_parents(B.states[i], B.done[i]).actions)

\* C13: get_parents_all fails with an assertion error, returning nothing, if
\* some row's action is not among the parent actions of the row, and succeeds
\* if every row's action is among them
C13_ParentsAllAsserts ==
    last.op = "parents_all" =>
        IF ActionNotAmongParents(batch[last.b])
        THEN last.err = "AssertionError" /\ last.ret = None
        ELSE last.err = "none" /\ last.ret.kind = "list"

\* C14: get_parents_all on a batch whose action space is continuous raises an
\* error, returns nothing and changes no field of the batch
C14_ContinuousRaises ==
    [][(last'.op = "parents_all" /\ batch[last'.b].continuous) =>
          /\ last'.err = "Exception"
          /\ last'.ret = None
          /\ batch' = batch]_vars

C14_Witness ==
    /\ last.op = "parents_all"
    /\ last.err = "Exception"
    /\ batch[last.b].continuous
    /\ batch[last.b].size > 0
    /\ ~batch[last.b].parents_all_available

\* C15: get_states and get_terminating_states asked for the policy format and
\* the proxy format at once raise an error, return nothing and change no field
\* of the batch, states_policy included
C15_AmbiguousRaises ==
    [][(/\ last'.op \in {"get_states", "get_terminating_states"}
        /\ last'.policy
        /\ last'.proxy) =>
          /\ last'.err = "ValueError"
          /\ last'.ret = None
          /\ batch' = batch]_vars

C15_Witness ==
    /\ last.op = "get_states"
    /\ last.policy /\ last.proxy
    /\ last.err = "ValueError"
    /\ batch[last.b].size > 0
    /\ ~batch[last.b].conditional
    /\ batch[last.b].states_policy.kind = "none"

\* C16: in a conditional batch states2policy and states2proxy, applied to the
\* rows of the batch, return one converted row per row, at the position of
\* the row
C16_ConditionalRows ==
    (/\ last.op = "get_states"
     /\ batch[last.b].conditional
     /\ last.force
     /\ last.policy # last.proxy) =>
        /\ last.err = "none"
        /\ last.ret.v = IF last.policy
                        THEN statebatch2policy(batch[last.b].states)
                        ELSE statebatch2proxy(batch[last.b].states)

\* C17: done is one-way under step: a step call on an environment that is
\* done, with any action, leaves it done
C17_DoneOneWay ==
    [][\A e \in Envs :
          (last'.op = "step" /\ env[e].done) => env'[e].done]_vars

C17_Witness ==
    /\ last.op = "step"
    /\ last.action < eos
    /\ env[last.e].done

\* C18: step with the stop action sets done, increments n_actions by one,
\* leaves the state as it is and returns (state, action, valid = True)
C18_StepStop ==
    [][(last'.op = "step" /\ last'.action = eos) =>
          LET E == env[last'.e]
              F == env'[last'.e]
          IN  /\ last'.err = "none"
              /\ F.done
              /\ F.n_actions = E.n_actions + 1
              /\ F.state = E.state
              /\ last'.ret = [state |-> E.state, action |-> eos, valid |-> TRUE]]_vars

\* C19: a step call returns a valid flag without raising; if the flag is True
\* n_actions has grown by one, if it is False state, done and n_actions are
\* as before the call
C19_CountsValidSteps ==
    [][last'.op = "step" =>
          LET E == env[last'.e]
              F == env'[last'.e]
          IN  /\ last'.err = "none"
              /\ IF last'.ret.valid
                 THEN F.n_actions = E.n_actions + 1
                 ELSE /\ F.state = E.state
                      /\ F.done = E.done
                      /\ F.n_actions = E.n_actions]_vars

\* C20: get_parents of the base class returns ([state], [stop action]) when
\* done is True and two empty lists when done is False, for every state, and
\* leaves the environments as they are
C20_BaseParents ==
    [][last'.op = "env_get_parents" =>
          LET E == env[last'.e]
              state == IF last'.state.kind = "none" THEN E.state ELSE last'.state.v
              done == IF last'.done = NotGiven THEN E.done ELSE last'.done = "True"
          IN  /\ last'.err = "none"
              /\ last'.ret = IF done
                             THEN [parents |-> <<state>>, actions |-> <<eos>>]
                             ELSE [parents |-> <<>>, actions |-> <<>>]
              /\ env' = env]_vars

C20_Witness ==
    /\ last.op = "env_get_parents"
    /\ last.done = "False"
    /\ last.state.kind = "list"
    /\ last.state.v # source
    /\ env[last.e].done
    /\ last.ret.parents = <<>>

\* the reward of a state as the interface describes it: the shaped scorer
\* value if done, zero otherwise
RewardIfDone(E, state, done) ==
    IF done THEN proxy2reward(E, Scorer(state)).ret ELSE Rat(0, 1)

\* C21: with a reward form the code knows, reward(state, done) returns 0 if
\* done is False and the shaped scorer value if done is True, and
\* reward_batch returns the same values position by position
C21_RewardZeroUnlessDone ==
    LET E == env[last.e]
    IN  /\ (last.op = "reward" /\ E.reward_func \in {"power", "boltzmann"}) =>
              /\ last.err = "none"
              /\ last.ret =
                    RewardIfDone(E,
                        IF last.state.kind = "none" THEN E.state ELSE last.state.v,
                        IF last.done = NotGiven THEN E.done ELSE last.done = "True")
        /\ (last.op = "reward_batch" /\ E.reward_func \in {"power", "boltzmann"}) =>
              /\ last.err = "none"
              /\ last.ret = [i \in 1..Len(last.states) |->
                               RewardIfDone(E, last.states[i], last.dones[i])]

\* r is a number and is at least min_reward
AtLeastMinReward(r) == r.k # "nan" /\ Clip(r) = r

\* C22: for the power form and the Boltzmann form and every scorer value,
\* proxy2reward returns a reward that is at least min_reward
C22_RewardFloor ==
    (last.op = "proxy2reward"
     /\ env[last.e].reward_func \in {"power", "boltzmann"}) =>
        /\ last.err = "none"
        /\ AtLeastMinReward(last.ret)

\* the clip of proxy2reward replaces the value computed for scorer value v
ClipActive(E, v) == Shape(E, v).k # "nan" /\ Clip(Shape(E, v)) # Shape(E, v)

\* C23: reward2proxy applied to proxy2reward(v) returns v, for every scorer
\* value v at which the clip is not active, for the power form and the
\* Boltzmann form, with and without de-normalization
C23_RoundTrip ==
    (/\ last.op = "reward2proxy"
     /\ last.chained
     /\ env[last.e].reward_func \in {"power", "boltzmann"}
     /\ ~ClipActive(env[last.e], last.proxy_vals)) =>
        /\ last.err = "none"
        /\ last.ret = last.proxy_vals

\* the errors that tell the caller that the reward form is not supported
UnsupportedForm == {"UnsupportedRewardForm", "NotImplementedError"}

\* C24: with a reward form other than the power form and the Boltzmann form,
\* proxy2reward and reward2proxy fail with an error that names the
\* unsupported reward form, and return no value
C24_UnsupportedForm ==
    (/\ last.op \in {"proxy2reward", "reward2proxy"}
     /\ env[last.e].reward_func \notin {"power", "boltzmann"}) =>
        /\ last.err \in UnsupportedForm
        /\ last.ret = None

\* the list xs without its element i
Without(xs, i) == SubSeq(xs, 1, i - 1) \o SubSeq(xs, i + 1, Len(xs))

RECURSIVE Largest(_, _)
\* the k largest of the numbers xs, the largest first
Largest(xs, k) ==
    IF k = 0 \/ xs = <<>> THEN <<>>
    ELSE <<xs[ArgMax(xs)]>> \o Largest(Without(xs, ArgMax(xs)), k - 1)

\* C25: after any sequence of Buffer.add(buffer='replay') on a reservoir of
\* K slots that starts with every reward -1, the rewards of the reservoir are,
\* as a multiset, the K largest of the rewards of all the candidates given
\* over all the calls, padded with -1 while fewer than K were given
C25_TopK ==
    LET K == buffer.replay_capacity
    IN  Largest(RewardsOf(buffer.replay), K) =
            Largest(last.given \o [i \in 1..K |-> -1], K)

\* rewards 5, 3, 9, 1, 7 were given to a reservoir of 3 slots, which holds
\* 9, 7 and 5
C25_Witness ==
    /\ last.op = "add" /\ last.buffer = "replay"
    /\ buffer.replay_capacity = 3
    /\ last.given = <<5, 3, 9, 1, 7>>
    /\ Largest(RewardsOf(buffer.replay), 3) = <<9, 7, 5>>

\* C26: Buffer.add(buffer='main') appends one record per state given after
\* the records of the main log, changes and removes no record the log held,
\* and leaves the replay reservoir as it was; Buffer.add(buffer='replay')
\* leaves the main log as it was
C26_AppendOnly ==
    [][last'.op = "add" =>
         /\ last'.buffer = "main" =>
                /\ Len(buffer'.main) = Len(buffer.main) + Len(last'.states)
                /\ \A i \in 1..Len(buffer.main) : buffer'.main[i] = buffer.main[i]
                /\ \A i \in 1..Len(last'.states) :
                       LET row == buffer'.main[Len(buffer.main) + i]
                       IN  /\ row.state = state2readable(last'.states[i])
                           /\ row.reward = last'.rewards[i]
                           /\ row.iter = Iter(last'.it)
                /\ buffer'.replay = buffer.replay
         /\ last'.buffer = "replay" => buffer'.main = buffer.main]_vars

\* two states were appended to a log that held a record, next to a reservoir
\* that holds a candidate
C26_Witness ==
    /\ last.op = "add" /\ last.buffer = "main" /\ last.err = "none"
    /\ Len(last.states) = 2
    /\ Len(buffer.main) > 2
    /\ last.given # <<>>
    /\ \E i \in 1..buffer.replay_capacity : buffer.replay[i].reward > 0

RECURSIVE Ascending(_, _)
\* the elements of the set S of rows, the smallest key first
Ascending(S, key) ==
    IF S = {} THEN <<>>
    ELSE LET i == CHOOSE i \in S : \A j \in S : key[i] <= key[j]
         IN  <<i>> \o Ascending(S \ {i}, key)

\* the rows of B with done = True in the order sort_by names: by row index,
\* or by trajectory id and by row index within a trajectory
DoneRows(B, sort_by) ==
    LET D == {i \in 1..B.size : B.done[i]}
        byrow == [i \in D |-> i]
        bytraj == [i \in D |-> B.traj_indices[i] * (B.size + 1) + i]
    IN  IF sort_by = "insertion" THEN Ascending(D, byrow) ELSE Ascending(D, bytraj)

\* C27: for sort_by 'insertion' and 'trajectory', get_terminating_states and
\* get_terminating_rewards return the states and the rewards of exactly the
\* rows with done = True, both in ascending order of the row index or of the
\* trajectory id; any other sort_by raises an error
C27_TerminatingOrder ==
    LET B == batch[last.b]
        rows == DoneRows(B, last.sort_by)
    IN  /\ (last.op = "get_terminating_states" /\ ~last.policy /\ ~last.proxy) =>
               IF last.sort_by \in {"insertion", "trajectory"}
               THEN /\ last.err = "none"
                    /\ last.ret = List([k \in 1..Len(rows) |-> B.states[rows[k]]])
               ELSE last.err # "none"
        /\ last.op = "get_terminating_rewards" =>
               IF last.sort_by \in {"insertion", "trajectory"}
               THEN /\ last.err = "none"
                    /\ last.ret = Tensor([k \in 1..Len(rows) |-> RowRewards(B)[rows[k]]])
               ELSE last.err # "none"

\* a lower bound of e^d that is exact (the integer part) for d up to 9
ExpFloor(d) ==
    IF d < 0 THEN 0
    ELSE <<1, 2, 7, 20, 54, 148, 403, 1096, 2980, 8103>>[IF d > 9 THEN 10 ELSE d + 1]

\* the probability of index v (1-based) under softmax(logits), every other
\* logit being -loginf, is at least 1 - 1/1000: with d the logit of v above
\* -loginf and n logits, 999 (n - 1) <= e^d
ProbAtLeast(logits, v) == 999 * (Len(logits) - 1) <= ExpFloor(logits[v] + loginf)

\* the mask invalidates every index but one
OneValid(mask) ==
    mask # None /\ Cardinality({i \in 1..Len(mask.v) : ~mask.v[i]}) = 1

\* C28: sample_actions with a mask that invalidates every action index but
\* one returns that index with probability at least 1 - 1e-3, whatever the
\* logits given
C28_MaskedSampling ==
    (/\ last.op = "sample_actions"
     /\ last.sampling_method \in {"uniform", "policy"}
     /\ OneValid(last.mask)) =>
        /\ last.err = "none"
        /\ ProbAtLeast(last.logits, CHOOSE i \in 1..Len(last.mask.v) : ~last.mask.v[i])

\* C29: a read of the parents, of all parents, of the forward or backward
\* masks or of the rewards that computes its cache sets the availability
\* flag of that cache to True (so that the next read without force_recompute
\* computes nothing): after a read that returned, the flag of its cache is True
C29_FlagSet ==
    (last.op \in Caches \cup {"get_parents"} /\ last.err = "none") =>
        Available(batch[last.b], ReadOf(last))

\* C30: a read of a cache with force_recompute = True returns a value with
\* one entry per row that the batch holds, whatever reads and add_to_batch
\* calls came before; so does get_parents(policy=True, force_recompute=True)
\* after rows were added since the last get_states(policy=True)
C30_ForceCovers ==
    (last.op \in Caches \cup {"get_parents"} /\ last.force) =>
        /\ last.err = "none"
        /\ Len(last.ret.v) = batch[last.b].size

\* C31: when the invocations of add_to_batch on a batch are serialized, no
\* state is reachable, once they returned or raised, in which a row index is
\* shared by two rows or is missing, that is in which is_valid() is false
\* (such a state is reachable when the invocations interleave)
C31_SerializedValid ==
    (calls.serial /\ Quiet) => is_valid(batch[1])

\* the row (1-based) that precedes row i in the index list of its trajectory,
\* 0 if row i is the first of the list
Preceding(B, i) ==
    LET L == Val(B.trajectories, B.traj_indices[i])
        k == CHOOSE k \in 1..Len(L) : L[k] = i - 1
    IN  IF k = 1 THEN 0 ELSE L[k - 1] + 1

\* C32: get_masks_forward(of_parents=True) returns, for each row, the forward
\* mask of the source if the row is the first of the index list of its
\* trajectory, and otherwise the forward mask of the row that precedes it in
\* that list
C32_MasksOfParents ==
    last.op = "masks_forward_of_parents" =>
        LET B == batch[last.b]
        IN  /\ last.err = "none"
            /\ Len(last.ret.v) = B.size
            /\ \A i \in 1..B.size :
                   last.ret.v[i] = IF Preceding(B, i) = 0 THEN MaskForward(source, FALSE)
                                   ELSE MaskForward(B.states[Preceding(B, i)],
                                                    B.done[Preceding(B, i)])

\* C32, restricted to the reads whose stored masks cover every row (the read
\* computed them, or no row was added since they were computed):
\* get_masks_forward(of_parents=True) returns, for each row, the forward mask
\* of the source if the row is the first of the index list of its trajectory,
\* and otherwise the forward mask of the row that precedes it in that list
C32_MasksOfParentsCovered ==
    (/\ last.op = "masks_forward_of_parents"
     /\ batch[last.b].masks_invalid_actions_forward.kind = "tensor"
     /\ Len(batch[last.b].masks_invalid_actions_forward.v) = batch[last.b].size) =>
        LET B == batch[last.b]
        IN  /\ last.err = "none"
            /\ Len(last.ret.v) = B.size
            /\ \A i \in 1..B.size :
                   last.ret.v[i] = IF Preceding(B, i) = 0 THEN MaskForward(source, FALSE)
                                   ELSE MaskForward(B.states[Preceding(B, i)],
                                                    B.done[Preceding(B, i)])

\* a read of the masks of the parents that returned, on a batch of three rows
\* in two trajectories, one of them sampled backward so that the row which
\* precedes a row in its list has the larger index
C32_Witness ==
    /\ last.op = "masks_forward_of_parents"
    /\ last.err = "none"
    /\ batch[last.b].size = 3
    /\ Len(batch[last.b].trajectories) = 2
    /\ \E i \in 1..3 : Preceding(batch[last.b], i) > i

RECURSIVE Flatten(_)
\* the concatenation of a sequence of sequences
Flatten(ss) ==
    IF ss = <<>> THEN <<>> ELSE Head(ss) \o Flatten(Tail(ss))

\* the rows (1-based) with done = True, trajectory after trajectory in the
\* order of self.trajectories, which is the order of get_actions_trajectories
DoneRowsOfTrajectories(B) ==
    Flatten([k \in 1..Len(B.trajectories) |->
               SelectSeq([j \in 1..Len(B.trajectories[k].v) |-> B.trajectories[k].v[j] + 1],
                         LAMBDA i : i <= B.size /\ B.done[i])])

\* C33: get_terminating_states(sort_by='trajectory') returns the terminating
\* states in the order of the trajectories in self.trajectories, the order in
\* which get_actions_trajectories() lists them, in whatever order the
\* trajectory ids entered the batch
C33_TrajectoryOrder ==
    (/\ last.op = "get_terminating_states"
     /\ last.sort_by = "trajectory"
     /\ ~last.policy /\ ~last.proxy) =>
        LET B == batch[last.b]
            rows == DoneRowsOfTrajectories(B)
        IN  /\ last.err = "none"
            /\ Len(get_actions_trajectories(B)) = Len(B.trajectories)
            /\ last.ret = List([k \in 1..Len(rows) |-> B.states[rows[k]]])

\* the parents listed for row idx (0-based) of B in parents_all
ListedParents(B, idx) ==
    LET at == SelectSeq([k \in 1..Len(B.parents_all_indices.v) |-> k],
                        LAMBDA k : B.parents_all_indices.v[k] = idx)
    IN  [j \in 1..Len(at) |-> B.parents_all.v[at[j]]]

\* C34: whenever parents_all_available is True, also after a merge of two
\* batches that both have it True, parents_all, parents_actions_all and
\* parents_all_indices have the same length, every index is below the size
\* of the batch and every row has its parents listed
C34_ParentsAllCoherent ==
    \A b \in Batches :
        LET B == batch[b]
        IN  B.parents_all_available = TRUE =>
                /\ B.parents_all # None
                /\ Len(B.parents_all.v) = Len(B.parents_actions_all.v)
                /\ Len(B.parents_all.v) = Len(B.parents_all_indices.v)
                /\ \A k \in 1..Len(B.parents_all_indices.v) :
                       B.parents_all_indices.v[k] \in 0..(B.size - 1)
                /\ \A i \in 1..B.size :
                       ListedParents(B, i - 1) = env_get_parents(B.states[i], B.done[i]).parents

\* row i (1-based) of B is, in the index list of its trajectory, at the
\* position that its state index names
AtStateIndex(B, i) ==
    LET L == Val(B.trajectories, B.traj_indices[i])
    IN  /\ B.state_indices[i] \in 1..Len(L)
        /\ L[B.state_indices[i]] = i - 1

C36_OneReplacement ==
    (last.op = "_add_greater" /\ last.rewards # <<>> /\ buffer.replay # <<>>) =>
        /\ last.err = "none"
        /\ Len(last.entered) <= Len(last.rewards)
        /\ \A i, j \in 1..Len(last.entered) : last.entered[i] = last.entered[j] => i = j
        /\ \A k \in 1..Len(buffer.replay) : buffer.replay[k].reward >= -1

\* a call with two candidates that both enter, once each, a reservoir of three
\* slots that holds a candidate of an earlier call
C36_Witness ==
    /\ last.op = "_add_greater"
    /\ last.it >= 2
    /\ Len(last.rewards) = 2
    /\ Len(last.entered) = 2
    /\ Len(buffer.replay) = 3
    /\ \E k \in 1..3 : /\ buffer.replay[k].iter.kind = "int"
                       /\ buffer.replay[k].iter.v < last.it

\* C37: in every state that add_to_batch and merge (with its shift of the
\* ids) reach, the environment stored under key k in envs has id k, and the
\* keys of envs, the keys of trajectories and the ids of traj_indices are the
\* same set
C37_IdsAgree ==
    \A b \in Batches :
        LET B == batch[b]
        IN  /\ \A i \in 1..Len(B.envs) : env[B.envs[i].v].id = B.envs[i].k
            /\ Keys(B.envs) = Keys(B.trajectories)
            /\ Keys(B.trajectories) = Range(B.traj_indices)

\* the positions, in the index list L, of the rows of B stored with done = True
DonePositions(B, L) ==
    {k \in 1..Len(L) : L[k] < Len(B.done) /\ B.done[L[k] + 1]}

\* C38: when every environment is stepped forward only while it is not done,
\* or backward from a done state, and every step is passed to add_to_batch
\* with train = True, every trajectory has at most one row with done = True,
\* and that row is the last element of the index list of the trajectory
C38_DoneRowLast ==
    \A t \in 1..Len(batch[1].trajectories) :
        LET L == batch[1].trajectories[t].v
        IN  DonePositions(batch[1], L) \subseteq {Len(L)}

\* a batch of four rows: a trajectory sampled backward and one sampled forward,
\* of two rows each, each with its row with done = True
C38_Witness ==
    /\ batch[1].size = 4
    /\ Len(batch[1].trajectories) = 2
    /\ \A t \in 1..2 : /\ Len(batch[1].trajectories[t].v) = 2
                        /\ DonePositions(batch[1], batch[1].trajectories[t].v) = {2}
    /\ \E t \in 1..2 : batch[1].trajectories[t].v[1] > batch[1].trajectories[t].v[2]

\* C39: reward_norm and reward_beta of an environment are above 0 in every
\* reachable state: a construction with a value that is not above 0 fails,
\* and no later operation, set_reward_norm included, leaves such a value
C39_NormPositive ==
    /\ (last.op = "init_env" /\ ~(Positive(last.reward_norm) /\ Positive(last.reward_beta))) =>
            last.err = "AssertionError"
    /\ \A e \in Envs : Positive(env[e].reward_norm) /\ Positive(env[e].reward_beta)

\* C40: sample_actions and get_logprobs leave the policy_outputs of the
\* caller as they were given, so that get_logprobs, called after
\* sample_actions with temperature 1 on the same policy_outputs, takes the
\* log-softmax of the logits that it takes of the policy_outputs as the caller
\* computed them
C40_OutputsUnchanged ==
    /\ last.op \in {"sample_actions", "get_logprobs"} =>
           last.outputs = last.policy_outputs
    /\ (last.op = "get_logprobs" /\ last.temperature = 1) =>
           last.logits = get_logprobs(SpaceOf(Len(last.original)), last.original,
                                      last.ret.v, last.mask).logits

====
